---- MODULE Spec2Model ----
(***************************************************************************)
(* A model of the kg-tree document tree (src/tree/mod.rs, metadata.rs) and *)
(* of the part of the opath evaluator that resolves canonical paths        *)
(* (src/opath/opath.rs, src/opath/expr/mod.rs).                            *)
(*                                                                         *)
(* A node (Rc<RefCell<Node>>) is an identity in Node.  The program under   *)
(* study holds a handle (NodeRef clone) to every allocated node, so no     *)
(* node is freed; handles are what a caller gets from get_child_index,     *)
(* get_child_key or an evaluation result.  value[n] is the node's Value,   *)
(* metadata[n] its Metadata.  op records the last call and its result,     *)
(* steps counts the calls made so far.  paths is the field of a            *)
(* NodePathMatcher (src/opath/matcher.rs), inserted the nodes handed to it *)
(* since it was last cleared.                                               *)
(***************************************************************************)
EXTENDS Integers, Sequences, FiniteSets, TLC

VARIABLES value, metadata, op, steps, paths, inserted

vars == <<value, metadata, op, steps, paths, inserted>>

(* ---- bounds ---- *)
NumNodes == 6
MaxLen == 2
MaxSteps == 2
\* the longest input of the JSON parser, in tokens
MaxTokens == 4

Node == 1..NumNodes
None == 0
NoIndex == -1
NoKey == "<none>"
Keys == {"a", "b"}
IndexArgs == {NoIndex} \cup (0..MaxLen)
KeyArgs == {NoKey} \cup Keys

Containers == {"array", "object"}

(* ---- Value and Metadata ---- *)

\* Value::Array(elems) / Value::Object(props) / scalars.  An object's props
\* are the parallel sequences keys, elems (insertion order).
ArrayValue(elems) == [kind |-> "array", data |-> 0, elems |-> elems, keys |-> <<>>]
ObjectValue(keys, elems) == [kind |-> "object", data |-> 0, elems |-> elems, keys |-> keys]
ScalarValue(kind, data) == [kind |-> kind, data |-> data, elems |-> <<>>, keys |-> <<>>]
FreeValue == [kind |-> "free", data |-> 0, elems |-> <<>>, keys |-> <<>>]

\* Metadata::new
Metadata_new == [parent |-> None, index |-> 0, key |-> "", file |-> None, span |-> None]

Allocated(val) == {n \in Node : val[n].kind # "free"}

Digits == <<"0", "1", "2", "3", "4", "5", "6", "7", "8", "9">>

\* usize::to_string: the decimal rendering of an index
RECURSIVE to_string(_)
to_string(i) == IF i < 10 THEN Digits[i + 1]
                ELSE to_string(i \div 10) \o Digits[(i % 10) + 1]

\* Vec::insert(i, x) with a 0-based i; the caller guards i <= len (else panic)
InsertAt(s, i, x) == SubSeq(s, 1, i) \o <<x>> \o SubSeq(s, i + 1, Len(s))

\* Vec::remove(i) with a 0-based i < len
RemoveAt(s, i) == SubSeq(s, 1, i) \o SubSeq(s, i + 2, Len(s))

Occurs(s, x) == \E i \in 1..Len(s) : s[i] = x

\* position (1-based) of the last occurrence of x in s
LastPos(s, x) == CHOOSE i \in 1..Len(s) : s[i] = x /\ \A j \in (i + 1)..Len(s) : s[j] # x

\* position (1-based) of key k in keys, 0 when absent (keys are unique)
KeyPos(keys, k) == IF Occurs(keys, k) THEN LastPos(keys, k) ELSE 0

\* Metadata::detach
detach(m) == [m EXCEPT !.parent = None, !.index = 0, !.key = ""]

\* NodeRef::update_children_metadata: the loop writes key, index and parent of
\* each child in order, so when one node occurs twice the last write stays.
update_children_metadata(val, md, self) ==
    LET v == val[self] IN
    IF v.kind \in Containers
    THEN [c \in Node |->
            IF Occurs(v.elems, c)
            THEN LET i == LastPos(v.elems, c) IN
                 [md[c] EXCEPT !.key = IF v.kind = "array" THEN to_string(i - 1) ELSE v.keys[i],
                               !.index = i - 1,
                               !.parent = self]
            ELSE md[c]]
    ELSE md

(* ---- errors (TreeErrorDetail) ---- *)
NoErr == [detail |-> "", a |-> "", b |-> ""]
AddChildInvalidType(kind) == [detail |-> "AddChildInvalidType", a |-> kind, b |-> ""]
SetChildInvalidType(kind) == [detail |-> "SetChildInvalidType", a |-> kind, b |-> ""]
\* the error kind of the neighbouring arm pasted into remove_child
RemoveChildInvalidType_pasted(kind) == [detail |-> "AddChildInvalidType", a |-> kind, b |-> ""]
RemoveChildInvalidType(kind) == [detail |-> "RemoveChildInvalidType", a |-> kind, b |-> ""]
\* ExtendIncompatibleTypes with the two kinds exchanged
ExtendIncompatibleTypes_swapped(target, source) ==
    [detail |-> "ExtendIncompatibleTypes", a |-> source, b |-> target]

ExtendIncompatibleTypes(target, source) ==
    [detail |-> "ExtendIncompatibleTypes", a |-> target, b |-> source]

\* the result of one call: the new tree, the returned nodes, the error
Result(val, md, ret, err) == [value |-> val, metadata |-> md, ret |-> ret, err |-> err]

(* ---- LinkedHashMap (kg_utils), on the parallel sequences of an object ---- *)

\* LinkedHashMap::insert(k, n): a present key keeps its place and gets the new
\* value, an absent key is appended; returns the replaced value
props_insert(v, k, n) ==
    LET p == KeyPos(v.keys, k) IN
    IF p = 0
    THEN [v |-> [v EXCEPT !.keys = Append(@, k), !.elems = Append(@, n)], old |-> None]
    ELSE [v |-> [v EXCEPT !.elems[p] = n], old |-> v.elems[p]]

\* LinkedHashMap::insert_at(i, k, n): the entry of k goes to position i; a
\* present key is taken out first and its value returned
props_insert_at(v, i, k, n) ==
    LET p == KeyPos(v.keys, k)
        ks == IF p = 0 THEN v.keys ELSE RemoveAt(v.keys, p - 1)
        es == IF p = 0 THEN v.elems ELSE RemoveAt(v.elems, p - 1)
        j == IF i > Len(ks) THEN Len(ks) ELSE i
    IN [v |-> [v EXCEPT !.keys = InsertAt(ks, j, k), !.elems = InsertAt(es, j, n)],
        old |-> IF p = 0 THEN None ELSE v.elems[p]]

\* LinkedHashMap::remove(k)
props_remove(v, k) ==
    LET p == KeyPos(v.keys, k) IN
    IF p = 0 THEN [v |-> v, old |-> None]
    ELSE [v |-> [v EXCEPT !.keys = RemoveAt(@, p - 1), !.elems = RemoveAt(@, p - 1)],
          old |-> v.elems[p]]

\* LinkedHashMap::remove_at(i)
props_remove_at(v, i) ==
    IF i >= Len(v.elems) THEN [v |-> v, old |-> None]
    ELSE [v |-> [v EXCEPT !.keys = RemoveAt(@, i), !.elems = RemoveAt(@, i)],
          old |-> v.elems[i + 1]]

(* ---- structural mutation (NodeRef) ---- *)

\* the Value::Object arm shared by add_child, set_child and add_children:
\* with a key the node is inserted (at index when given), without one the
\* offered node is dropped and nothing changes
object_put(v, index, key, n) ==
    IF key # NoKey
    THEN IF index # NoIndex THEN props_insert_at(v, index, key, n) ELSE props_insert(v, key, n)
    ELSE [v |-> v, old |-> None]

\* Option<NodeRef> as a sequence of at most one node
Opt(n) == IF n = None THEN <<>> ELSE <<n>>

\* NodeRef::add_child
add_child(val, md, self, index, key, n) ==
    LET v == val[self] IN
    CASE v.kind = "array" ->
            LET val1 == [val EXCEPT ![self].elems =
                            IF index # NoIndex THEN InsertAt(@, index, n) ELSE Append(@, n)]
            IN Result(val1, update_children_metadata(val1, md, self), <<>>, NoErr)
      [] v.kind = "object" ->
            LET r == object_put(v, index, key, n)
                val1 == [val EXCEPT ![self] = r.v]
                md1 == update_children_metadata(val1, md, self)
            IN Result(val1,
                      IF r.old # None THEN [md1 EXCEPT ![r.old] = detach(@)] ELSE md1,
                      Opt(r.old), NoErr)
      [] OTHER -> Result(val, md, <<>>, AddChildInvalidType(v.kind))

\* NodeRef::set_child
set_child(val, md, self, index, key, n) ==
    LET v == val[self] IN
    CASE v.kind = "array" ->
            LET val1 == [val EXCEPT ![self].elems =
                            IF index # NoIndex THEN [@ EXCEPT ![index + 1] = n] ELSE Append(@, n)]
            IN Result(val1, update_children_metadata(val1, md, self), <<>>, NoErr)
      [] v.kind = "object" ->
            LET r == object_put(v, index, key, n)
                val1 == [val EXCEPT ![self] = r.v]
                md1 == update_children_metadata(val1, md, self)
            IN Result(val1,
                      IF r.old # None THEN [md1 EXCEPT ![r.old] = detach(@)] ELSE md1,
                      Opt(r.old), NoErr)
      [] OTHER -> Result(val, md, <<>>, AddChildInvalidType(v.kind))

\* the Value::Array arm of remove_child and remove_children
array_take(v, index) ==
    IF index # NoIndex
    THEN IF index < Len(v.elems)
         THEN [v |-> [v EXCEPT !.elems = RemoveAt(@, index)], old |-> v.elems[index + 1]]
         ELSE [v |-> v, old |-> None]
    ELSE IF Len(v.elems) > 0
         THEN [v |-> [v EXCEPT !.elems = SubSeq(@, 1, Len(@) - 1)], old |-> v.elems[Len(v.elems)]]
         ELSE [v |-> v, old |-> None]

\* the Value::Object arm of remove_child and remove_children
object_take(v, index, key) ==
    IF key # NoKey THEN props_remove(v, key)
    ELSE IF index # NoIndex THEN props_remove_at(v, index)
    ELSE [v |-> v, old |-> None]

\* NodeRef::remove_child
remove_child(val, md, self, index, key) ==
    LET v == val[self] IN
    IF v.kind \in Containers
    THEN LET r == IF v.kind = "array" THEN array_take(v, index) ELSE object_take(v, index, key)
             val1 == [val EXCEPT ![self] = r.v]
         IN IF r.old # None
            THEN Result(val1,
                        update_children_metadata(val1, [md EXCEPT ![r.old] = detach(@)], self),
                        <<r.old>>, NoErr)
            ELSE Result(val1, md, <<>>, NoErr)
    ELSE Result(val, md, <<>>, RemoveChildInvalidType(v.kind))

\* the while loops of remove_children: items are <<index, key>>
RECURSIVE remove_loop(_, _, _, _, _)
remove_loop(v, md, drop, items, res) ==
    IF items = <<>> THEN [v |-> v, md |-> md, res |-> res]
    ELSE LET it == Head(items)
             r == IF v.kind = "array" THEN array_take(v, it[1]) ELSE object_take(v, it[1], it[2])
         IN IF ~drop /\ r.old # None
            THEN remove_loop(r.v, [md EXCEPT ![r.old] = detach(@)], drop, Tail(items),
                             Append(res, r.old))
            ELSE remove_loop(r.v, md, drop, Tail(items), res)

\* NodeRef::remove_children
remove_children(val, md, self, drop, items) ==
    LET v == val[self] IN
    IF v.kind \in Containers
    THEN LET r == remove_loop(v, md, drop, items, <<>>)
             val1 == [val EXCEPT ![self] = r.v]
         IN Result(val1, update_children_metadata(val1, r.md, self), r.res, NoErr)
    ELSE Result(val, md, <<>>, RemoveChildInvalidType(v.kind))

\* the while loops of add_children: items are <<index, key, node>>
RECURSIVE add_loop(_, _, _, _, _)
add_loop(v, md, drop, items, res) ==
    IF items = <<>> THEN [v |-> v, md |-> md, res |-> res]
    ELSE LET it == Head(items) IN
         IF v.kind = "array"
         THEN add_loop([v EXCEPT !.elems = IF it[1] # NoIndex THEN InsertAt(@, it[1], it[3])
                                            ELSE Append(@, it[3])],
                       md, drop, Tail(items), res)
         ELSE LET r == object_put(v, it[1], it[2], it[3]) IN
              IF ~drop /\ r.old # None
              THEN add_loop(r.v, [md EXCEPT ![r.old] = detach(@)], drop, Tail(items),
                            Append(res, r.old))
              ELSE add_loop(r.v, md, drop, Tail(items), res)

\* NodeRef::add_children
add_children(val, md, self, drop, items) ==
    LET v == val[self] IN
    IF v.kind \in Containers
    THEN LET r == add_loop(v, md, drop, items, <<>>)
             val1 == [val EXCEPT ![self] = r.v]
         IN Result(val1, update_children_metadata(val1, r.md, self), r.res, NoErr)
    ELSE Result(val, md, <<>>, AddChildInvalidType(v.kind))

\* the object arm of extend_internal: pop_front each (k, v) of the source and
\* insert it at i (counting up) or at the end; a replaced value is discarded
RECURSIVE extend_props(_, _, _, _)
extend_props(v, okeys, oelems, i) ==
    IF okeys = <<>> THEN v
    ELSE IF i # NoIndex
         THEN extend_props(props_insert_at(v, i, Head(okeys), Head(oelems)).v,
                           Tail(okeys), Tail(oelems), i + 1)
         ELSE extend_props(props_insert(v, Head(okeys), Head(oelems)).v,
                           Tail(okeys), Tail(oelems), NoIndex)

\* NodeRef::extend_internal: Ok(true), Ok(false) or Err
extend_internal(val, self, o, index) ==
    LET n == val[self]
        s == val[o]
    IN
    IF self # o
    THEN CASE n.kind = "array" /\ s.kind = "array" ->
                [value |-> [val EXCEPT
                     ![self].elems = IF index # NoIndex /\ index < Len(n.elems)
                                     THEN SubSeq(n.elems, 1, index) \o s.elems
                                          \o SubSeq(n.elems, index + 1, Len(n.elems))
                                     ELSE n.elems \o s.elems,
                     ![o].elems = <<>>],
                 updated |-> TRUE, err |-> NoErr]
           [] n.kind = "object" /\ s.kind = "object" ->
                [value |-> [val EXCEPT
                     ![self] = extend_props(n, s.keys, s.elems,
                                            IF index # NoIndex /\ index < Len(n.elems)
                                            THEN index ELSE NoIndex),
                     ![o].elems = <<>>, ![o].keys = <<>>],
                 updated |-> TRUE, err |-> NoErr]
           [] OTHER ->
                [value |-> val, updated |-> FALSE,
                 err |-> ExtendIncompatibleTypes(n.kind, s.kind)]
    ELSE [value |-> val, updated |-> FALSE, err |-> NoErr]

\* NodeRef::extend
extend(val, md, self, o, index) ==
    LET r == extend_internal(val, self, o, index) IN
    IF r.err # NoErr THEN Result(val, md, <<>>, r.err)
    ELSE IF r.updated
         THEN Result(r.value, update_children_metadata(r.value, md, self), <<>>, NoErr)
         ELSE Result(r.value, md, <<>>, NoErr)

\* the while loop of extend_multiple: extends are <<node, index>>; the `?`
\* leaves the loop, and the function, at the first error
RECURSIVE extend_loop(_, _, _, _)
extend_loop(val, self, extends, updated) ==
    IF extends = <<>> THEN [value |-> val, updated |-> updated, err |-> NoErr]
    ELSE LET r == extend_internal(val, self, Head(extends)[1], Head(extends)[2]) IN
         IF r.err # NoErr THEN [value |-> val, updated |-> updated, err |-> r.err]
         ELSE extend_loop(r.value, self, Tail(extends), updated \/ r.updated)

\* NodeRef::extend_multiple
extend_multiple(val, md, self, extends) ==
    LET r == extend_loop(val, self, extends, FALSE) IN
    IF r.err # NoErr THEN Result(r.value, md, <<>>, r.err)
    ELSE IF r.updated
         THEN Result(r.value, update_children_metadata(r.value, md, self), <<>>, NoErr)
         ELSE Result(r.value, md, <<>>, NoErr)

(* ---- deep copy ---- *)

\* Metadata::deep_copy with the file info left out
Metadata_deep_copy_no_file(m) ==
    [parent |-> None, index |-> 0, key |-> "", file |-> None, span |-> m.span]

\* Metadata::deep_copy
Metadata_deep_copy(m) ==
    [parent |-> None, index |-> 0, key |-> "", file |-> m.file, span |-> m.span]

\* Rc::new: the identity of a newly allocated node
FreshNode(val) == CHOOSE f \in Node : val[f].kind = "free"
                                      /\ \A g \in Node : val[g].kind = "free" => f <= g

\* the number of nodes a deep copy of n allocates; above NumNodes when the
\* child edges below n loop (the recursion then never returns)
RECURSIVE copy_size(_, _, _)
copy_size(val, n, fuel) ==
    IF fuel = 0 THEN NumNodes + 1
    ELSE LET RECURSIVE sum(_)
             sum(s) == IF s = <<>> THEN 0
                       ELSE LET a == copy_size(val, Head(s), fuel - 1)
                                b == sum(Tail(s))
                            IN IF a + b > NumNodes THEN NumNodes + 1 ELSE a + b
         IN 1 + sum(val[n].elems)

\* NodeRef::deep_copy is NodeRef::new(self.data().deep_copy()); Node::deep_copy
\* copies the value, every child through its own deep_copy, and the metadata
\* through Metadata::deep_copy
RECURSIVE deep_copy(_, _, _)
Node_deep_copy(val, md, n) ==
    LET RECURSIVE kids(_, _, _, _)
        kids(v, m, s, acc) ==
            IF s = <<>> THEN [value |-> v, metadata |-> m, nodes |-> acc]
            ELSE LET r == deep_copy(v, m, Head(s))
                 IN kids(r.value, r.metadata, Tail(s), Append(acc, r.node))
        k == kids(val, md, val[n].elems, <<>>)
        f == FreshNode(k.value)
    IN [value |-> [k.value EXCEPT ![f] = [val[n] EXCEPT !.elems = k.nodes]],
        metadata |-> [k.metadata EXCEPT ![f] = Metadata_deep_copy(md[n])],
        node |-> f]

deep_copy(val, md, n) ==
    LET r == Node_deep_copy(val, md, n) IN
    [r EXCEPT !.metadata = update_children_metadata(r.value, r.metadata, r.node)]

(* ---- object paths (opath) ---- *)

\* Expr: the variants the canonical paths and the child accessors use
Expr_Root == [t |-> "Root", index |-> 0, id |-> "", elems |-> <<>>]
Expr_Current == [t |-> "Current", index |-> 0, id |-> "", elems |-> <<>>]
Expr_Parent == [t |-> "Parent", index |-> 0, id |-> "", elems |-> <<>>]
Expr_All == [t |-> "All", index |-> 0, id |-> "", elems |-> <<>>]
Expr_Property(id) == [t |-> "Property", index |-> 0, id |-> id, elems |-> <<>>]
Expr_Index(index) == [t |-> "Index", index |-> index, id |-> "", elems |-> <<>>]
Expr_Sequence(elems) == [t |-> "Sequence", index |-> 0, id |-> "", elems |-> elems]

\* NodeBuf and its operations
NodeBuf_new == [multiple |-> FALSE, elems |-> <<>>]
NodeBuf_add(out, n) == [out EXCEPT !.elems = Append(@, n)]
NodeBuf_append(out, ns) == [multiple |-> TRUE, elems |-> out.elems \o ns]
NodeBuf_merge(out, o) == [multiple |-> out.multiple \/ o.multiple, elems |-> out.elems \o o.elems]

\* NodeSet: Empty, One(node) or Many(nodes)
NodeSet(shape, elems) == [shape |-> shape, elems |-> elems]

\* into_node_set that makes a One of every single element
into_node_set_of_len(out) ==
    IF Len(out.elems) = 0 THEN NodeSet("Empty", <<>>)
    ELSE IF Len(out.elems) = 1 THEN NodeSet("One", out.elems)
    ELSE NodeSet("Many", out.elems)

into_node_set(out) ==
    IF Len(out.elems) = 0 THEN NodeSet("Empty", <<>>)
    ELSE IF Len(out.elems) = 1 /\ ~out.multiple THEN NodeSet("One", out.elems)
    ELSE NodeSet("Many", out.elems)

to_abs_index(index, len) ==
    IF index < 0
    THEN (IF len + index >= 0 THEN len + index ELSE len)
    ELSE index

\* slice::get / Iterator::nth with a 0-based index
get_at(out, elems, index) ==
    IF index < Len(elems) THEN NodeBuf_add(out, elems[index + 1]) ELSE out

get_child_all(val, current, out) ==
    IF val[current].kind \in Containers THEN NodeBuf_append(out, val[current].elems) ELSE out

get_child_index(val, current, index, out) ==
    IF val[current].kind \in Containers
    THEN get_at(out, val[current].elems, to_abs_index(index, Len(val[current].elems)))
    ELSE out

\* key.parse::<f64>() as i64, for the keys of the model: decimal indices
\* parse, the property names do not (NoIndex)
parse_index(key) ==
    LET parsed(is) == IF is = {} THEN NoIndex ELSE CHOOSE i \in is : TRUE
    IN parsed({i \in 0..(NumNodes + MaxLen) : to_string(i) = key})

get_child_key_by_index(val, current, key, out) ==
    LET v == val[current] IN
    IF v.kind \in Containers /\ parse_index(key) # NoIndex
    THEN get_at(out, v.elems, to_abs_index(parse_index(key), Len(v.elems)))
    ELSE out

get_child_key(val, current, key, out) ==
    LET v == val[current] IN
    IF v.kind = "object" /\ Occurs(v.keys, key)
    THEN NodeBuf_add(out, v.elems[KeyPos(v.keys, key)])
    ELSE get_child_key_by_index(val, current, key, out)

\* Expr::apply_to for an expression that is not a Sequence
apply_to_simple(val, md, root, current, e, out) ==
    CASE e.t = "Root" -> NodeBuf_add(out, root)
      [] e.t = "Current" -> NodeBuf_add(out, current)
      [] e.t = "Parent" -> IF md[current].parent # None
                           THEN NodeBuf_add(out, md[current].parent) ELSE out
      [] e.t = "All" -> get_child_all(val, current, [out EXCEPT !.multiple = TRUE])
      [] e.t = "Property" -> get_child_key(val, current, e.id, out)
      [] e.t = "Index" -> get_child_index(val, current, e.index, out)

\* the inner loop of the Sequence arm: e applied to every node of out1
RECURSIVE apply_each(_, _, _, _, _, _, _)
apply_each(val, md, root, nodes, i, e, out2) ==
    IF i > Len(nodes) THEN out2
    ELSE apply_each(val, md, root, nodes, i + 1, e,
                    apply_to_simple(val, md, root, nodes[i], e, out2))

\* the outer loop of the Sequence arm
RECURSIVE apply_sequence(_, _, _, _, _, _)
apply_sequence(val, md, root, elems, i, out1) ==
    IF i > Len(elems) THEN out1
    ELSE apply_sequence(val, md, root, elems, i + 1,
             apply_each(val, md, root, out1.elems, 1, elems[i],
                        [multiple |-> out1.multiple, elems |-> <<>>]))

apply_to(val, md, root, current, e, out) ==
    IF e.t = "Sequence"
    THEN NodeBuf_merge(out, apply_sequence(val, md, root, e.elems, 1,
                                           NodeBuf_add(NodeBuf_new, current)))
    ELSE apply_to_simple(val, md, root, current, e, out)

\* Expr::apply in Context::Expr
Expr_apply(val, md, root, current, e) ==
    into_node_set(apply_to(val, md, root, current, e, NodeBuf_new))

SingleNodeExpected(shape) == [detail |-> "SingleNodeExpected", a |-> shape, b |-> ""]
Unimplemented == [detail |-> "panic: not implemented", a |-> "", b |-> ""]

\* Expr::apply_one: the node of a One, an error for any other node set
Expr_apply_one(val, md, ns) ==
    IF ns.shape = "One" THEN Result(val, md, ns.elems, NoErr)
    ELSE Result(val, md, <<>>, SingleNodeExpected(ns.shape))

\* Opath::apply_one and Opath::apply_one_ext: NodeRef::null() for Empty, the
\* node of a One, unimplemented!() for Many
Opath_apply_one(val, md, ns) ==
    CASE ns.shape = "Empty" ->
            LET f == FreshNode(val) IN
            Result([val EXCEPT ![f] = ScalarValue("null", 0)],
                   [md EXCEPT ![f] = Metadata_new], <<f>>, NoErr)
      [] ns.shape = "One" -> Result(val, md, ns.elems, NoErr)
      [] ns.shape = "Many" -> Result(val, md, <<>>, Unimplemented)

Reverse(s) == [i \in 1..Len(s) |-> s[Len(s) + 1 - i]]

\* the loop of Opath::from: one accessor per parent edge, innermost first;
\* fuel bounds the walk, which does not end on a parent cycle
RECURSIVE from_loop(_, _, _, _, _)
from_loop(val, md, n, seq, fuel) ==
    LET p == md[n].parent IN
    IF p = None \/ fuel = 0 THEN seq
    ELSE from_loop(val, md, p,
                   Append(seq, IF val[p].kind = "array" THEN Expr_Index(md[n].index)
                               ELSE Expr_Property(md[n].key)),
                   fuel - 1)

Opath_from(val, md, node) ==
    Expr_Sequence(Reverse(Append(from_loop(val, md, node, <<>>, NumNodes), Expr_Root)))

\* the node k parent steps above n, None when the chain ends before
RECURSIVE Up(_, _, _)
Up(md, n, k) == IF k = 0 \/ n = None THEN n ELSE Up(md, md[n].parent, k - 1)

\* the nodes reachable from the nodes of S through child edges, S included
Children(val, n) == {val[n].elems[i] : i \in 1..Len(val[n].elems)}

RECURSIVE Reach(_, _, _)
Reach(val, S, k) ==
    IF k = 0 THEN S
    ELSE Reach(val, S \cup UNION {Children(val, n) : n \in S}, k - 1)

\* Opath::from returns: the parent chain of node ends
from_terminates(md, node) == \E k \in 0..NumNodes : Up(md, node, k) = None

(* ---- the state machine ---- *)

\* the last call: its name, receiver, node argument, returned nodes and error;
\* for an evaluation also the node set it produced (shape and elements)
Call(name, self, arg, r) ==
    [name |-> name, self |-> self, arg |-> arg, ret |-> r.ret, err |-> r.err,
     path |-> <<>>, ns |-> "", set |-> <<>>]

\* RefCell: update_children_metadata holds self.data_mut() while it takes
\* data_mut() of every child, so a node that is its own child makes it panic
BorrowPanics(val, self) == Occurs(val[self].elems, self)

\* The tree the program builds first: 1 = NodeRef::array(vec![2]) with
\* 2 = NodeRef::object({"a": 3}) and 3 = NodeRef::integer(1).  NodeRef::new
\* runs update_children_metadata; file info and span are as set_file and
\* set_span leave them.
InitValue == [n \in Node |-> CASE n = 1 -> ArrayValue(<<2>>)
                               [] n = 2 -> ObjectValue(<<"a">>, <<3>>)
                               [] n = 3 -> ScalarValue("integer", 1)
                               [] OTHER -> FreeValue]

InitMetadata == [n \in Node |-> CASE n = 1 -> [Metadata_new EXCEPT !.file = 1]
                                  [] n = 2 -> [Metadata_new EXCEPT !.file = 2, !.span = 2]
                                  [] n = 3 -> [Metadata_new EXCEPT !.span = 3]
                                  [] OTHER -> Metadata_new]

Init ==
    /\ value = InitValue
    /\ metadata = update_children_metadata(InitValue,
                      update_children_metadata(InitValue, InitMetadata, 2), 1)
    /\ op = [name |-> "new", self |-> None, arg |-> None, ret |-> <<>>, err |-> NoErr,
             path |-> <<>>, ns |-> "", set |-> <<>>]
    /\ steps = 0
    /\ paths = {}
    /\ inserted = {}

Apply(name, self, arg, r) ==
    /\ \A n \in Node : Len(r.value[n].elems) <= MaxLen
    /\ steps' = steps + 1
    /\ value' = r.value
    /\ metadata' = r.metadata
    /\ op' = Call(name, self, arg, r)
    /\ UNCHANGED <<paths, inserted>>

\* The <<index, key>> arguments that make a difference to a receiver of the
\* given kind: the array arms never read the key, a scalar receiver reads
\* neither
PutArgs(kind) ==
    CASE kind = "array" -> IndexArgs \X {NoKey}
      [] kind = "object" -> {NoIndex, 0} \X KeyArgs
      [] OTHER -> {<<NoIndex, NoKey>>}

AddChild ==
    /\ steps < MaxSteps
    /\ \E self \in Allocated(value) :
       \E a \in PutArgs(value[self].kind), n \in Allocated(value) :
        \* Vec::insert panics beyond the end
        /\ a[1] # NoIndex => a[1] <= Len(value[self].elems)
        /\ LET r == add_child(value, metadata, self, a[1], a[2], n) IN
           /\ r.err = NoErr => ~BorrowPanics(r.value, self)
           /\ Apply("add_child", self, n, r)

SetChild ==
    /\ steps < MaxSteps
    /\ \E self \in Allocated(value) :
       \E a \in PutArgs(value[self].kind), n \in Allocated(value) :
        \* elems[i] panics at and beyond the end
        /\ a[1] # NoIndex => a[1] <= Len(value[self].elems)
        /\ (value[self].kind = "array" /\ a[1] # NoIndex) => a[1] < Len(value[self].elems)
        /\ LET r == set_child(value, metadata, self, a[1], a[2], n) IN
           /\ r.err = NoErr => ~BorrowPanics(r.value, self)
           /\ Apply("set_child", self, n, r)

RemoveChild ==
    /\ steps < MaxSteps
    /\ \E self \in Allocated(value) :
       \E a \in PutArgs(value[self].kind) :
        LET r == remove_child(value, metadata, self, a[1], a[2]) IN
        /\ r.ret # <<>> => ~BorrowPanics(r.value, self)
        /\ Apply("remove_child", self, None, r)

\* batches of two items: an insert at the front or a push, then a push
AddItems(kind) ==
    CASE kind = "array" ->
            {<<<<i, NoKey, n>>, <<NoIndex, NoKey, m>>>> : i \in {NoIndex, 0}, n \in Node, m \in Node}
      [] kind = "object" ->
            {<<<<NoIndex, "a", n>>, <<NoIndex, k, m>>>> : k \in Keys, n \in Node, m \in Node}
      [] OTHER -> {<<<<NoIndex, NoKey, n>>>> : n \in Node}

\* drop is read by the object arm of add_children only
AddChildren ==
    /\ steps < MaxSteps
    /\ \E self \in Allocated(value) :
       \E drop \in IF value[self].kind = "object" THEN BOOLEAN ELSE {FALSE},
          items \in AddItems(value[self].kind) :
        /\ \A i \in 1..Len(items) : items[i][3] \in Allocated(value)
        /\ LET r == add_children(value, metadata, self, drop, items) IN
           /\ r.err = NoErr => ~BorrowPanics(r.value, self) /\ ~Occurs(r.ret, self)
           /\ Apply(IF drop THEN "add_children_drop" ELSE "add_children", self, None, r)

RemoveItems(kind) ==
    CASE kind = "array" -> {<<<<i, NoKey>>, <<j, NoKey>>>> : i, j \in {NoIndex, 0}}
      [] kind = "object" ->
            LET it == {<<NoIndex, "a">>, <<0, NoKey>>}
            IN {<<x, y>> : x, y \in it}
      [] OTHER -> {<<<<NoIndex, NoKey>>>>}

RemoveChildren ==
    /\ steps < MaxSteps
    /\ \E self \in Allocated(value) :
       \E drop \in IF value[self].kind \in Containers THEN BOOLEAN ELSE {FALSE},
          items \in RemoveItems(value[self].kind) :
        LET r == remove_children(value, metadata, self, drop, items) IN
        /\ r.err = NoErr => ~BorrowPanics(r.value, self) /\ ~Occurs(r.ret, self)
        /\ Apply(IF drop THEN "remove_children_drop" ELSE "remove_children", self, None, r)

Extend ==
    /\ steps < MaxSteps
    /\ \E self \in Allocated(value), o \in Allocated(value), index \in {NoIndex, 0} :
        LET r == extend(value, metadata, self, o, index) IN
        /\ (r.err = NoErr /\ self # o) => ~BorrowPanics(r.value, self)
        /\ Apply("extend", self, o, r)

\* two sources, both appended (extend covers the splice at an index)
ExtendItems == {<<<<o, NoIndex>>, <<p, NoIndex>>>> : o \in Node, p \in Node}

ExtendMultiple ==
    /\ steps < MaxSteps
    /\ \E self \in Allocated(value), extends \in ExtendItems :
        /\ \A i \in 1..Len(extends) : extends[i][1] \in Allocated(value)
        /\ LET r == extend_multiple(value, metadata, self, extends) IN
           /\ (r.err = NoErr /\ r.value # value) => ~BorrowPanics(r.value, self)
           /\ Apply("extend_multiple", self, None, r)

DeepCopy ==
    /\ steps < MaxSteps
    /\ \E n \in Allocated(value) :
        \* the copy recurses forever on looping child edges
        /\ copy_size(value, n, NumNodes) <= Cardinality(Node \ Allocated(value))
        /\ LET r == deep_copy(value, metadata, n) IN
           Apply("deep_copy", n, None, [value |-> r.value, metadata |-> r.metadata,
                                        ret |-> <<r.node>>, err |-> NoErr])

\* an evaluation: the path evaluated and the node set it produced are kept
ApplyPath(name, root, arg, path, ns, r) ==
    /\ steps' = steps + 1
    /\ value' = r.value
    /\ metadata' = r.metadata
    /\ op' = [Call(name, root, arg, r) EXCEPT !.path = path, !.ns = ns.shape, !.set = ns.elems]
    /\ UNCHANGED <<paths, inserted>>

\* the paths $.x for the accessors x
Accessors == {Expr_All, Expr_Parent, Expr_Property("a"), Expr_Index(0), Expr_Index(MaxLen)}
Paths == {<<Expr_Root, x>> : x \in Accessors}

\* Opath::from(node).apply(root, root) for a node of the tree under root
OpathFrom ==
    /\ steps < MaxSteps
    /\ \E root \in Allocated(value) : \E node \in Reach(value, {root}, NumNodes) :
        /\ metadata[root].parent = None
        /\ from_terminates(metadata, node)
        /\ LET e == Opath_from(value, metadata, node)
               ns == Expr_apply(value, metadata, root, root, e)
           IN ApplyPath("Opath::from", root, node, e.elems, ns,
                        Result(value, metadata, <<>>, NoErr))

\* Expr::apply_one(Env::new(root, root, None), Context::Expr)
ExprApplyOne ==
    /\ steps < MaxSteps
    /\ \E root \in Allocated(value) : \E path \in Paths :
        LET ns == Expr_apply(value, metadata, root, root, Expr_Sequence(path))
        IN ApplyPath("Expr::apply_one", root, None, path, ns,
                     Expr_apply_one(value, metadata, ns))

\* Opath::apply_one(root, root)
OpathApplyOne ==
    /\ steps < MaxSteps
    /\ \E root \in Allocated(value) : \E path \in Paths :
        LET ns == Expr_apply(value, metadata, root, root, Expr_Sequence(path))
        IN /\ ns.shape = "Empty" => Allocated(value) # Node
           /\ ApplyPath("Opath::apply_one", root, None, path, ns,
                        Opath_apply_one(value, metadata, ns))

Next ==
    \/ ExtendMultiple
    \/ Extend
    \/ SetChild
    \/ AddChild
    \/ RemoveChild
    \/ AddChildren
    \/ RemoveChildren
    \/ DeepCopy
    \/ OpathFrom
    \/ ExprApplyOne
    \/ OpathApplyOne

Spec == Init /\ [][Next]_vars

(* ---- properties of the tree ---- *)

\* the child at position i (1-based) of p carries p, its position and its key
ChildOK(val, md, p, i) ==
    LET c == val[p].elems[i] IN
    /\ md[c].parent = p
    /\ md[c].index = i - 1
    /\ md[c].key = IF val[p].kind = "array" THEN to_string(i - 1) ELSE val[p].keys[i]

ChildrenOK(val, md, p) == \A i \in 1..Len(val[p].elems) : ChildOK(val, md, p, i)


\* C1: after any sequence of structural mutations every child of every array
\* or object carries that parent, its position as index, and its position in
\* decimal (array) or its map key (object) as key.
C1_ChildrenMetadata ==
    \A p \in Allocated(value) : value[p].kind \in Containers => ChildrenOK(value, metadata, p)

\* C2: every node whose metadata holds a parent reference is one of the
\* children that parent currently holds.
C2_ParentHoldsChild ==
    \A n \in Allocated(value) :
        metadata[n].parent # None => Occurs(value[metadata[n].parent].elems, n)

\* C3: every node returned by remove_child, remove_children, add_child or
\* set_child has after the call no parent, index 0 and an empty key, and the
\* file info and span it had before the call.
C3_ReturnedDetached ==
    [][(steps' = steps + 1
        /\ op'.name \in {"remove_child", "remove_children", "add_child", "set_child"})
       => \A i \in 1..Len(op'.ret) :
             LET n == op'.ret[i] IN
             /\ metadata'[n].parent = None
             /\ metadata'[n].index = 0
             /\ metadata'[n].key = ""
             /\ metadata'[n].file = metadata[n].file
             /\ metadata'[n].span = metadata[n].span]_vars

\* C4: no node is its own ancestor: the parent relation is acyclic.
C4_Acyclic ==
    \A n \in Allocated(value) : \A k \in 1..NumNodes : Up(metadata, n, k) # n

\* C6: deep_copy(n) returns a node without parent, with index 0 and an empty
\* key, with n's file info and span; the copy's subtree shares no node with
\* n's subtree; the copy's children carry the copy as parent, their position
\* and their key; every node that existed before is unchanged.
C6_DeepCopy ==
    [][(steps' = steps + 1 /\ op'.name = "deep_copy")
       => LET n == op'.self
              c == op'.ret[1]
          IN /\ c \notin Allocated(value)
             /\ metadata'[c].parent = None
             /\ metadata'[c].index = 0
             /\ metadata'[c].key = ""
             /\ metadata'[c].file = metadata[n].file
             /\ metadata'[c].span = metadata[n].span
             /\ value'[c].kind = value[n].kind
             /\ Len(value'[c].elems) = Len(value[n].elems)
             /\ Reach(value', {c}, NumNodes) \cap Reach(value', {n}, NumNodes) = {}
             /\ ChildrenOK(value', metadata', c)
             /\ \A m \in Allocated(value) : value'[m] = value[m] /\ metadata'[m] = metadata[m]]_vars

\* a deep copy was taken of an attached container that has a child and file info
C6_Witness ==
    /\ op.name = "deep_copy"
    /\ Len(value[op.self].elems) > 0
    /\ metadata[op.self].parent # None
    /\ metadata[op.self].file # None
    /\ metadata[op.ret[1]].file = metadata[op.self].file

\* C7: set_child on a node that is neither array nor object fails with
\* SetChildInvalidType carrying the node's kind, and changes nothing.
C7_SetChildInvalidType ==
    [][(steps' = steps + 1 /\ op'.name = "set_child" /\ value[op'.self].kind \notin Containers)
       => /\ op'.err.detail = "SetChildInvalidType"
          /\ op'.err.a = value[op'.self].kind
          /\ value' = value
          /\ metadata' = metadata]_vars

\* C8: add_child on a node that is neither array nor object fails with
\* AddChildInvalidType, remove_child on such a node with
\* RemoveChildInvalidType; the receiver and the offered child keep their
\* value and metadata (so does every other node).
C8_InvalidTypeErrors ==
    [][(steps' = steps + 1 /\ value[op'.self].kind \notin Containers
        /\ op'.name \in {"add_child", "remove_child"})
       => /\ op'.err.detail = IF op'.name = "add_child" THEN "AddChildInvalidType"
                              ELSE "RemoveChildInvalidType"
          /\ op'.err.a = value[op'.self].kind
          /\ op'.ret = <<>>
          /\ value' = value
          /\ metadata' = metadata]_vars

\* add_child was refused on a scalar that was offered an attached container
C8_Witness ==
    /\ op.name = "add_child"
    /\ op.err.detail = "AddChildInvalidType"
    /\ op.err.a = "integer"
    /\ value[op.arg].kind = "array"

\* C9: extend of a target with another node fails with
\* ExtendIncompatibleTypes{target kind, source kind} unless both are arrays or
\* both are objects, and then changes nothing; extend of a node with itself
\* succeeds and changes nothing.
C9_ExtendIncompatible ==
    [][(steps' = steps + 1 /\ op'.name = "extend")
       => LET t == value[op'.self].kind
              s == value[op'.arg].kind
          IN IF op'.self = op'.arg
             THEN op'.err = NoErr /\ value' = value /\ metadata' = metadata
             ELSE IF (t = "array" /\ s = "array") \/ (t = "object" /\ s = "object")
                  THEN op'.err = NoErr
                  ELSE /\ op'.err.detail = "ExtendIncompatibleTypes"
                       /\ op'.err.a = t
                       /\ op'.err.b = s
                       /\ value' = value
                       /\ metadata' = metadata]_vars

\* extend of an array that has a child with an object that has a child was refused
C9_Witness ==
    /\ op.name = "extend"
    /\ op.err.detail = "ExtendIncompatibleTypes"
    /\ op.err.a = "array"
    /\ op.err.b = "object"
    /\ Len(value[op.self].elems) > 0
    /\ Len(value[op.arg].elems) > 0

\* C5: for a node n reachable through child edges from a root r, the path
\* Opath::from(n) evaluated with root r yields the node set One(n).
C5_PathRoundTrip ==
    op.name = "Opath::from" => op.ns = "One" /\ op.set = <<op.arg>>

\* C10: apply_one returns the node when the evaluated node set is One and
\* fails with SingleNodeExpected when it is Empty or Many, on the expression
\* (Expr::apply_one) as on the path (Opath::apply_one).
C10_SingleNodeExpected ==
    op.name \in {"Expr::apply_one", "Opath::apply_one"}
        => IF op.ns = "One"
           THEN op.err = NoErr /\ op.ret = op.set
           ELSE op.err.detail = "SingleNodeExpected" /\ op.ret = <<>>

(* ======================================================================= *)
(* Deserialization entry points (src/tree/mod.rs) and the pure functions   *)
(* of the evaluator (src/opath/expr/mod.rs).  A second specification,      *)
(* SpecFn, draws one call with its arguments in its initial state and      *)
(* applies the called function in one step.                                *)
(* ======================================================================= *)

\* enum FileFormat
FileFormat == {"binary", "text", "json", "yaml", "toml"}

\* a TreeResult / Result<NodeRef, ParseDiag>, or the panic that ends the call
Outcome(status, detail, format, cause) ==
    [status |-> status, detail |-> detail, format |-> format, cause |-> cause]

\* NodeRef::from_json, from_yaml and from_toml on a text s, of which parses
\* says whether the parser of the format accepts it: the JSON and TOML
\* parsers return a ParseDiag, the closure from_yaml gives to map_err prints
\* the serde_yaml error and panics
parse(s, format) ==
    IF s.parses THEN Outcome("ok", "parsed", "", "")
    ELSE IF format = "yaml" THEN Outcome("panic", "Error deserializing Node from yaml", "", "")
    ELSE Outcome("err", "ParseDiag", "", "")

\* ResultExt::map_err_as_cause: an Err becomes the given detail with the
\* original error attached as its cause
map_err_as_cause(res, detail, format) ==
    IF res.status = "err" THEN Outcome("err", detail, format, res.detail) ELSE res

\* NodeRef::from_str
from_str(s, format) ==
    LET res == CASE format \in {"json", "yaml", "toml"} -> parse(s, format)
                 [] format = "text" -> Outcome("ok", "string", "", "")
                 [] format = "binary" -> Outcome("ok", "binary", "", "")
    IN map_err_as_cause(res, "DeserializationErr", format)

\* NodeRef::from_bytes on bytes s, of which utf8 says whether
\* std::str::from_utf8 accepts them: `to_str(s)?` returns the NonUtf8Node
\* error at once
from_bytes(s, format) ==
    LET to_str == IF s.utf8 THEN Outcome("ok", "str", "", "")
                  ELSE Outcome("err", "NonUtf8Node", "", "Utf8Error")
        res == CASE format \in {"json", "yaml", "toml"} -> parse(s, format)
                 [] format = "text" -> Outcome("ok", "string", "", "")
                 [] format = "binary" -> Outcome("ok", "binary", "", "")
    IN IF format # "binary" /\ to_str.status = "err" THEN to_str
       ELSE map_err_as_cause(res, "DeserializationErr", format)

\* a call drawn in the initial state (name "call"), and the call once it
\* has returned (name fn)
FnCall(name, fn, args, ret) == [name |-> name, fn |-> fn, args |-> args, ret |-> ret]

(* ---- values of the evaluator ---- *)

\* The payload of a scalar Value in the documents the evaluator runs on: an
\* integer is num, a boolean is num 1 or 0, a float is the fraction num/den
\* in lowest terms with den > 0, or den = 0 for NaN (0/0), inf (1/0) and
\* -inf (-1/0); a string or binary is str.  Signed zero and the rounding of
\* f64 are not modelled.
Data(num, den, str) == [num |-> num, den |-> den, str |-> str]

\* an f64 from a numerator and a denominator
f64(n, d) ==
    LET RECURSIVE gcd(_, _)
        gcd(x, y) == IF y = 0 THEN x ELSE gcd(y, x % y)
        abs(x) == IF x < 0 THEN -x ELSE x
        lowest(g) == IF d < 0 THEN Data((-n) \div g, (-d) \div g, "")
                     ELSE Data(n \div g, d \div g, "")
    IN IF d = 0 THEN Data(IF n > 0 THEN 1 ELSE IF n < 0 THEN -1 ELSE 0, 0, "")
       ELSE lowest(gcd(abs(n), abs(d)))

NAN == Data(0, 0, "")

\* f64 +, -, *, / (IEEE-754: NaN propagates, inf - inf and 0 * inf and 0 / 0
\* are NaN, x / 0 is an infinity)
f64_op(o, x, y) ==
    LET isnan(z) == z.den = 0 /\ z.num = 0
        \* x + r for + and -, x * r for * and /
        with(r) ==
            IF isnan(x) \/ isnan(r) THEN NAN
            ELSE IF o \in {"+", "-"}
            THEN (IF x.den = 0 /\ r.den = 0 THEN (IF x.num = r.num THEN x ELSE NAN)
                  ELSE IF x.den = 0 THEN x
                  ELSE IF r.den = 0 THEN r
                  ELSE f64(x.num * r.den + r.num * x.den, x.den * r.den))
            ELSE f64(x.num * r.num, x.den * r.den)
    IN with(CASE o = "/" -> f64(IF y.num < 0 THEN -y.den ELSE y.den,
                                IF y.num < 0 THEN -y.num ELSE y.num)
              [] o = "-" -> f64(-y.num, y.den)
              [] OTHER -> y)

\* NodeRef::null(), boolean(b), integer(i), float(f), string(s), binary(s):
\* a new node, not yet part of any tree (id None), with its value
Scalar(kind, data) == [id |-> None, v |-> ScalarValue(kind, data)]

\* a handle to node n of the document
NodeRef(val, n) == [id |-> n, v |-> val[n]]

\* Node::as_string.  tests/opath/math_ops/add.rs pins null as "null", an
\* array as its elements joined with ',' and an object as "[object]".
RECURSIVE as_string(_, _)
as_string(val, v) ==
    LET i64_to_string(i) == (IF i < 0 THEN "-" ELSE "") \o to_string(IF i < 0 THEN -i ELSE i)
        RECURSIVE join(_)
        join(i) == IF i > Len(v.elems) THEN ""
                   ELSE (IF i > 1 THEN "," ELSE "") \o as_string(val, val[v.elems[i]]) \o join(i + 1)
    IN CASE v.kind = "null" -> "null"
         [] v.kind = "boolean" -> IF v.data.num = 1 THEN "true" ELSE "false"
         [] v.kind = "integer" \/ (v.kind = "float" /\ v.data.den = 1) ->
                i64_to_string(v.data.num)
         [] v.kind = "float" /\ v.data.den = 0 ->
                IF v.data.num = 0 THEN "NaN" ELSE IF v.data.num > 0 THEN "inf" ELSE "-inf"
         [] v.kind \in {"string", "binary"} -> v.data.str
         [] v.kind = "array" -> join(1)
         [] v.kind = "object" -> "[object]"

\* Node::as_float: a string is parsed as a number and is NaN when it does
\* not parse
as_float(v) ==
    CASE v.kind = "null" -> Data(0, 1, "")
      [] v.kind \in {"boolean", "integer"} -> Data(v.data.num, 1, "")
      [] v.kind = "float" -> v.data
      [] v.kind \in {"string", "binary"} ->
             LET parsed(i) == IF i # NoIndex THEN Data(i, 1, "") ELSE NAN
             IN parsed(parse_index(v.data.str))
      [] v.kind = "array" -> IF Len(v.elems) = 0 THEN Data(0, 1, "") ELSE NAN
      [] v.kind = "object" -> NAN

\* Node::as_boolean
as_boolean(v) ==
    CASE v.kind = "null" -> FALSE
      [] v.kind \in {"boolean", "integer"} -> v.data.num # 0
      [] v.kind = "float" -> v.data.num # 0
      [] v.kind \in {"string", "binary"} -> v.data.str # ""
      [] v.kind \in Containers -> TRUE

\* NodeRef::is_ref_eq (Rc::ptr_eq): a new node is no node of the document
\* and no other new node
is_ref_eq(a, b) == a.id # None /\ a.id = b.id

\* NodeRef::is_equal with the first mirrored arm (String, _) left out
is_equal_one_sided(val, a, b) ==
    LET ka == a.v.kind
        kb == b.v.kind
        \* f64 ==: NaN equals nothing
        f64_eq(x, y) == x = y /\ ~(x.den = 0 /\ x.num = 0)
    IN IF is_ref_eq(a, b) THEN TRUE
       ELSE CASE ka = "null" /\ kb = "null" -> TRUE
              [] ka = "null" \/ kb = "null" -> FALSE
              [] ka = "object" /\ kb = "object" -> is_ref_eq(a, b)
              [] ka = "array" /\ kb = "array" -> is_ref_eq(a, b)
              [] ka = "string" /\ kb = "string" -> a.v.data.str = b.v.data.str
              [] kb = "string" -> as_string(val, a.v) = b.v.data.str
              [] ka = "boolean" /\ kb = "boolean" -> a.v.data.num = b.v.data.num
              [] ka = "boolean" -> (a.v.data.num = 1) = as_boolean(b.v)
              [] kb = "boolean" -> as_boolean(a.v) = (b.v.data.num = 1)
              [] ka = "float" /\ kb = "float" -> f64_eq(a.v.data, b.v.data)
              [] ka = "float" -> f64_eq(a.v.data, as_float(b.v))
              [] kb = "float" -> f64_eq(as_float(a.v), b.v.data)
              [] ka = "integer" /\ kb = "integer" -> a.v.data.num = b.v.data.num
              [] OTHER -> FALSE

\* NodeRef::is_equal: the arms of the match in their order
is_equal(val, a, b) ==
    LET ka == a.v.kind
        kb == b.v.kind
        \* f64 ==: NaN equals nothing
        f64_eq(x, y) == x = y /\ ~(x.den = 0 /\ x.num = 0)
    IN IF is_ref_eq(a, b) THEN TRUE
       ELSE CASE ka = "null" /\ kb = "null" -> TRUE
              [] ka = "null" \/ kb = "null" -> FALSE
              [] ka = "object" /\ kb = "object" -> is_ref_eq(a, b)
              [] ka = "array" /\ kb = "array" -> is_ref_eq(a, b)
              [] ka = "string" /\ kb = "string" -> a.v.data.str = b.v.data.str
              [] ka = "string" -> a.v.data.str = as_string(val, b.v)
              [] kb = "string" -> as_string(val, a.v) = b.v.data.str
              [] ka = "boolean" /\ kb = "boolean" -> a.v.data.num = b.v.data.num
              [] ka = "boolean" -> (a.v.data.num = 1) = as_boolean(b.v)
              [] kb = "boolean" -> as_boolean(a.v) = (b.v.data.num = 1)
              [] ka = "float" /\ kb = "float" -> f64_eq(a.v.data, b.v.data)
              [] ka = "float" -> f64_eq(a.v.data, as_float(b.v))
              [] kb = "float" -> f64_eq(as_float(a.v), b.v.data)
              [] ka = "integer" /\ kb = "integer" -> a.v.data.num = b.v.data.num
              [] OTHER -> FALSE

(* ---- the evaluator: Expr::apply_to with its contexts ---- *)

\* the width of the integers of the model (i64 in the code)
IntBits == 3
MinInt == -(2 ^ (IntBits - 1))
MaxInt == (2 ^ (IntBits - 1)) - 1

\* f64 as i64: truncation toward zero, saturating, NaN is 0
f64_as_i64(f) ==
    IF f.den = 0 THEN (IF f.num > 0 THEN MaxInt ELSE IF f.num < 0 THEN MinInt ELSE 0)
    ELSE LET q == IF f.num < 0 THEN -((-f.num) \div f.den) ELSE f.num \div f.den
         IN IF q > MaxInt THEN MaxInt ELSE IF q < MinInt THEN MinInt ELSE q

\* Expr: String(s), Integer(n), Float(n), Boolean(b), Null, Attribute(attr)
\* and Var(id) carry the payload x (a name is its str, a boolean its num 1 or
\* 0); PropertyExpr(e) and IndexExpr(e) have one operand,
\* Add, Sub, Mul, Div, Eq, Ne and Ancestors (min, max) two
Expr_Literal(t, x) == [t |-> t, x |-> x]
Expr_Op(t, args) == [t |-> t, args |-> args]

\* NodeBuf::new, with the error a `?` has propagated so far
NodeBuf_ok == [multiple |-> FALSE, elems |-> <<>>, err |-> NoErr]

\* the nodes a child accessor selected in the document, added to out as
\* handles; a new node has no children
Selected(val, current, out, r) ==
    IF current.id = None THEN out
    ELSE [out EXCEPT !.multiple = @ \/ r.multiple,
                     !.elems = @ \o [i \in 1..Len(r.elems) |-> NodeRef(val, r.elems[i])]]

get_attr(md, current, attr, out) ==
    LET m == IF current.id = None THEN Metadata_new ELSE md[current.id]
    IN CASE attr = "@key" -> NodeBuf_add(out, Scalar("string", Data(0, 1, m.key)))
         [] attr = "@index" -> NodeBuf_add(out, Scalar("integer", Data(m.index, 1, "")))

\* get_prop without the attribute lookup
get_prop_child_only(val, md, current, id, out) ==
    Selected(val, current, out, get_child_key(val, current.id, id, NodeBuf_new))

\* get_prop: Attr::from_str accepts the attributes of the model, @key and
\* @index
get_prop(val, md, current, id, out) ==
    IF id \in {"@key", "@index"} THEN get_attr(md, current, id, out)
    ELSE Selected(val, current, out, get_child_key(val, current.id, id, NodeBuf_new))

apply_string(val, md, current, ctx, s, out) ==
    IF ctx \in {"Property", "Index"} THEN get_prop(val, md, current, s, out)
    ELSE NodeBuf_add(out, Scalar("string", Data(0, 1, s)))

apply_integer(val, current, ctx, n, out) ==
    IF ctx \in {"Property", "Index"}
    THEN Selected(val, current, out, get_child_index(val, current.id, n, NodeBuf_new))
    ELSE NodeBuf_add(out, Scalar("integer", Data(n, 1, "")))

\* apply_float that emits a float node in every context
apply_float_as_value(val, current, ctx, n, out) == NodeBuf_add(out, Scalar("float", n))

apply_float(val, current, ctx, n, out) ==
    IF ctx \in {"Property", "Index"}
    THEN Selected(val, current, out, get_child_index(val, current.id, f64_as_i64(n), NodeBuf_new))
    ELSE NodeBuf_add(out, Scalar("float", n))

\* apply_boolean that emits a boolean node in every context
apply_boolean_as_value(current, ctx, b, out) == NodeBuf_add(out, Scalar("boolean", Data(IF b THEN 1 ELSE 0, 1, "")))

apply_boolean(current, ctx, b, out) ==
    IF ctx \in {"Property", "Index"}
    THEN (IF b THEN NodeBuf_add(out, current) ELSE out)
    ELSE NodeBuf_add(out, Scalar("boolean", Data(IF b THEN 1 ELSE 0, 1, "")))

apply_null(current, ctx, out) ==
    IF ctx \in {"Property", "Index"} THEN out ELSE NodeBuf_add(out, Scalar("null", Data(0, 1, "")))

apply_node(val, md, current, ctx, n, out) ==
    IF ctx \in {"Property", "Index"}
    THEN CASE n.v.kind = "null" -> out
           [] n.v.kind = "boolean" -> IF n.v.data.num = 1 THEN NodeBuf_add(out, current) ELSE out
           [] n.v.kind = "integer" ->
                  Selected(val, current, out, get_child_index(val, current.id, n.v.data.num, NodeBuf_new))
           [] n.v.kind = "float" ->
                  Selected(val, current, out,
                           get_child_index(val, current.id, f64_as_i64(n.v.data), NodeBuf_new))
           [] n.v.kind = "string" -> get_prop(val, md, current, n.v.data.str, out)
           [] n.v.kind \in {"binary", "array", "object"} ->
                  IF as_boolean(n.v) THEN NodeBuf_add(out, current) ELSE out
    ELSE NodeBuf_add(out, n)

(* ---- arithmetic on two nodes ---- *)

\* i64::wrapping_add / wrapping_sub / wrapping_mul: the result modulo 2^IntBits
wrapping_op(o, a, b) ==
    LET int_op(x, y) == CASE o = "+" -> x + y [] o = "-" -> x - y [] o = "*" -> x * y
    IN Scalar("integer", Data(((int_op(a, b) - MinInt) % (2 ^ IntBits)) + MinInt, 1, ""))

\* i64::checked_add / checked_sub / checked_mul with the fallback of the
\* (Integer, Integer) arms: Some(res) is emitted as an integer, None as the
\* float a as f64 (op) b as f64
checked_op(o, a, b) ==
    LET int_op(x, y) == CASE o = "+" -> x + y [] o = "-" -> x - y [] o = "*" -> x * y
    IN
    IF int_op(a, b) >= MinInt /\ int_op(a, b) <= MaxInt
    THEN Scalar("integer", Data(int_op(a, b), 1, ""))
    ELSE Scalar("float", f64_op(o, f64(a, 1), f64(b, 1)))

\* add with the (Object, _) arms moved below the string arms
add_strings_first(val, a, b) ==
    LET ka == a.v.kind
        kb == b.v.kind
    IN CASE ka \in {"string", "array", "object"} \/ kb \in {"string", "array", "object"} ->
               Scalar("string", Data(0, 1, as_string(val, a.v) \o as_string(val, b.v)))
         [] ka = "integer" /\ kb = "integer" -> checked_op("+", a.v.data.num, b.v.data.num)
         [] OTHER -> Scalar("float", f64_op("+", as_float(a.v), as_float(b.v)))

\* add: the node its arm emits (through apply_string, apply_integer or
\* apply_float)
add(val, a, b) ==
    LET ka == a.v.kind
        kb == b.v.kind
    IN CASE ka = "object" /\ kb = "array" ->
               Scalar("float", IF Len(b.v.elems) = 0 THEN f64(0, 1) ELSE NAN)
         [] ka = "array" \/ kb = "array" \/ kb = "object" ->
               Scalar("string", Data(0, 1, as_string(val, a.v) \o as_string(val, b.v)))
         [] ka = "object" -> Scalar("float", f64_op("+", f64(0, 1), as_float(b.v)))
         [] ka = "string" /\ kb = "string" -> Scalar("string", Data(0, 1, a.v.data.str \o b.v.data.str))
         [] ka = "string" -> Scalar("string", Data(0, 1, a.v.data.str \o as_string(val, b.v)))
         [] kb = "string" -> Scalar("string", Data(0, 1, as_string(val, a.v) \o b.v.data.str))
         [] ka = "integer" /\ kb = "integer" -> checked_op("+", a.v.data.num, b.v.data.num)
         [] ka = "float" /\ kb = "float" -> Scalar("float", f64_op("+", a.v.data, b.v.data))
         [] ka = "float" -> Scalar("float", f64_op("+", a.v.data, as_float(b.v)))
         [] kb = "float" -> Scalar("float", f64_op("+", as_float(a.v), b.v.data))
         [] OTHER -> Scalar("float", f64_op("+", as_float(a.v), as_float(b.v)))

\* sub whose last arm emits an integer when the difference is integral
sub_integral(a, b) ==
    LET r == f64_op("-", as_float(a.v), as_float(b.v))
    IN IF a.v.kind = "integer" /\ b.v.kind = "integer"
       THEN checked_op("-", a.v.data.num, b.v.data.num)
       ELSE IF r.den = 1 THEN Scalar("integer", Data(r.num, 1, "")) ELSE Scalar("float", r)

sub(a, b) ==
    LET ka == a.v.kind
        kb == b.v.kind
        zero == Data(0, 1, "")
    IN CASE ka = "integer" /\ kb = "integer" -> checked_op("-", a.v.data.num, b.v.data.num)
         [] ka = "object" /\ kb = "array" ->
               Scalar("float", IF Len(b.v.elems) = 0 THEN zero ELSE NAN)
         [] ka = "array" /\ kb = "array" ->
               Scalar("float", IF Len(a.v.elems) = 0 /\ Len(b.v.elems) = 0 THEN zero ELSE NAN)
         [] ka = "array" ->
               Scalar("float", IF Len(a.v.elems) = 0 THEN f64_op("-", zero, as_float(b.v)) ELSE NAN)
         [] kb = "array" ->
               Scalar("float", IF Len(b.v.elems) = 0 THEN as_float(a.v) ELSE NAN)
         [] ka = "object" ->
               Scalar("float", IF Len(a.v.elems) = 0 THEN f64_op("-", zero, as_float(b.v)) ELSE NAN)
         [] ka = "float" /\ kb = "float" -> Scalar("float", f64_op("-", a.v.data, b.v.data))
         [] ka = "float" -> Scalar("float", f64_op("-", a.v.data, as_float(b.v)))
         [] kb = "float" -> Scalar("float", f64_op("-", as_float(a.v), b.v.data))
         [] OTHER -> Scalar("float", f64_op("-", as_float(a.v), as_float(b.v)))

mul(a, b) ==
    LET ka == a.v.kind
        kb == b.v.kind
        zero == Data(0, 1, "")
    IN CASE ka = "integer" /\ kb = "integer" -> checked_op("*", a.v.data.num, b.v.data.num)
         [] ka = "array" /\ kb = "array" ->
               Scalar("float", IF Len(a.v.elems) = 0 /\ Len(b.v.elems) = 0 THEN zero ELSE NAN)
         [] ka = "array" ->
               Scalar("float", IF Len(a.v.elems) = 0 THEN f64_op("*", zero, as_float(b.v)) ELSE NAN)
         [] kb = "array" ->
               Scalar("float", IF Len(b.v.elems) = 0 THEN f64_op("*", as_float(a.v), zero) ELSE NAN)
         [] ka = "float" /\ kb = "float" -> Scalar("float", f64_op("*", a.v.data, b.v.data))
         [] ka = "float" -> Scalar("float", f64_op("*", a.v.data, as_float(b.v)))
         [] kb = "float" -> Scalar("float", f64_op("*", as_float(a.v), b.v.data))
         [] OTHER -> Scalar("float", f64_op("*", as_float(a.v), as_float(b.v)))

div(a, b) ==
    LET ka == a.v.kind
        kb == b.v.kind
        zero == Data(0, 1, "")
    IN CASE ka = "array" ->
               Scalar("float", IF Len(a.v.elems) = 0 THEN f64_op("/", zero, as_float(b.v)) ELSE NAN)
         [] kb = "array" ->
               Scalar("float", IF Len(b.v.elems) = 0 THEN f64_op("/", as_float(a.v), zero) ELSE NAN)
         [] ka = "float" /\ kb = "float" -> Scalar("float", f64_op("/", a.v.data, b.v.data))
         [] ka = "float" -> Scalar("float", f64_op("/", a.v.data, as_float(b.v)))
         [] kb = "float" -> Scalar("float", f64_op("/", as_float(a.v), b.v.data))
         [] OTHER -> Scalar("float", f64_op("/", as_float(a.v), as_float(b.v)))

(* ---- Expr::apply_to ---- *)

\* the pairs the match on (a, b) of math_binary_op and bool_op visits, which
\* pair every element with the first partner when both are Many
zip_first(a, b) ==
    IF a.shape = "One" THEN [i \in 1..Len(b.elems) |-> <<a.elems[1], b.elems[i]>>]
    ELSE [i \in 1..Len(a.elems) |-> <<a.elems[i], b.elems[1]>>]

\* the pairs the match on (a, b) of math_binary_op and bool_op visits when
\* neither is Empty: One with One, One with each of Many, each of Many with
\* One, and Iterator::zip of Many with Many
zip(a, b) ==
    CASE a.shape = "One" -> [i \in 1..Len(b.elems) |-> <<a.elems[1], b.elems[i]>>]
      [] b.shape = "One" -> [i \in 1..Len(a.elems) |-> <<a.elems[i], b.elems[1]>>]
      [] OTHER -> [i \in 1..(IF Len(a.elems) < Len(b.elems) THEN Len(a.elems) ELSE Len(b.elems))
                     |-> <<a.elems[i], b.elems[i]>>]

\* Expr::apply_to(env, ctx, out): out with the emitted nodes, or with the
\* error the evaluation has returned
\* the inner fn add_descendants of Expr::apply_to: current when its level is
\* within level_min..level_max, then the children one level down, in order
RECURSIVE add_descendants(_, _, _, _, _, _)
\* add_descendants without the test of level_min
add_descendants_from_current(val, current, level, level_min, level_max, out) ==
    LET RECURSIVE each(_, _)
        each(i, o) ==
            IF i > Len(val[current.id].elems) THEN o
            ELSE each(i + 1, add_descendants(val, NodeRef(val, val[current.id].elems[i]),
                                             level + 1, level_min, level_max, o))
    IN IF level <= level_max
       THEN IF level < level_max /\ current.id # None
            THEN each(1, NodeBuf_add(out, current)) ELSE NodeBuf_add(out, current)
       ELSE out

add_descendants(val, current, level, level_min, level_max, out) ==
    LET RECURSIVE each(_, _)
        each(i, o) ==
            IF i > Len(val[current.id].elems) THEN o
            ELSE each(i + 1, add_descendants(val, NodeRef(val, val[current.id].elems[i]),
                                             level + 1, level_min, level_max, o))
        below(o) == IF level < level_max /\ current.id # None THEN each(1, o) ELSE o
    IN IF level <= level_max
       THEN below(IF level >= level_min THEN NodeBuf_add(out, current) ELSE out)
       ELSE out

\* not_op that does not negate
not_op_truthy(a) ==
    IF a.shape = "Empty" THEN <<TRUE>>
    ELSE [i \in 1..Len(a.elems) |-> as_boolean(a.elems[i].v)]

\* the booleans the inner fn not_op of bool_not_op emits for the node set of
\* its operand: true for Empty, !as_boolean() for each node
not_op(a) ==
    IF a.shape = "Empty" THEN <<TRUE>>
    ELSE [i \in 1..Len(a.elems) |-> ~as_boolean(a.elems[i].v)]

RECURSIVE Expr_apply_to(_, _, _, _, _, _)
Expr_apply_to(val, md, env, ctx, e, out) ==
    LET current == env.current
        \* the op given to math_binary_op, and the closures a == b and a != b
        \* on NodeRef (PartialEq is is_equal) given to bool_binary_op
        math_op(a, b) == CASE e.t = "Add" -> add(val, a, b)
                           [] e.t = "Sub" -> sub(a, b)
                           [] e.t = "Mul" -> mul(a, b)
                           [] e.t = "Div" -> div(a, b)
        bool_op(a, b) == is_equal(val, a, b) = (e.t = "Eq")
        \* Node::as_integer of a range bound, with the default of unwrap_or
        as_integer(n, default) == IF n.v.kind = "integer" THEN n.v.data.num ELSE default
        \* the children of a node as handles (Value::Array elems,
        \* Value::Object props.values()), none for a scalar
        values(n) ==
            IF n.id = None THEN <<>>
            ELSE [i \in 1..Len(val[n.id].elems) |-> NodeRef(val, val[n.id].elems[i])]
        \* Scope::get_var on the variables of the scope, pairs <<id, node set>>
        bound(id) == {i \in 1..Len(env.scope) : env.scope[i][1] = id}
        \* NodeBuf::add_all
        add_all(ns) ==
            CASE ns.shape = "Empty" -> out
              [] ns.shape = "One" -> NodeBuf_add(out, ns.elems[1])
              [] ns.shape = "Many" -> [out EXCEPT !.multiple = TRUE, !.elems = @ \o ns.elems]
        \* Expr::apply and Expr::apply_one
        apply(en, c, x) ==
            LET o == Expr_apply_to(val, md, en, c, x, NodeBuf_ok)
            IN [ns |-> into_node_set(o), err |-> o.err]
        apply_one(en, c, x) ==
            LET r == apply(en, c, x)
            IN IF r.err # NoErr THEN r
               ELSE IF r.ns.shape = "One" THEN r
               ELSE [r EXCEPT !.err = SingleNodeExpected(r.ns.shape)]
        fail(err) == [out EXCEPT !.err = err]
        \* math_binary_op
        math_binary_op ==
            LET a == apply(env, "Expr", e.args[1])
                b == apply(env, "Expr", e.args[2])
                \* the apply_string, apply_integer or apply_float of the arm
                \* of op that has made r
                emit(r, o) ==
                    CASE r.v.kind = "string" -> apply_string(val, md, current, ctx, r.v.data.str, o)
                      [] r.v.kind = "integer" -> apply_integer(val, current, ctx, r.v.data.num, o)
                      [] r.v.kind = "float" -> apply_float(val, current, ctx, r.v.data, o)
                RECURSIVE each(_, _, _)
                each(ps, i, o) ==
                    IF i > Len(ps) THEN o
                    ELSE each(ps, i + 1, emit(math_op(ps[i][1], ps[i][2]), o))
            IN IF a.err # NoErr THEN fail(a.err)
               ELSE IF b.err # NoErr THEN fail(b.err)
               ELSE IF a.ns.shape = "Empty" \/ b.ns.shape = "Empty"
               THEN apply_float(val, current, ctx, NAN, out)
               ELSE each(zip(a.ns, b.ns), 1, out)
        \* the inner fn bool_op of bool_binary_op, at one current node
        bool_op_at(en, o) ==
            LET a == apply(en, "Expr", e.args[1])
                b == apply(en, "Expr", e.args[2])
                RECURSIVE each(_, _, _)
                each(ps, i, oo) ==
                    IF i > Len(ps) THEN oo
                    ELSE each(ps, i + 1,
                              apply_boolean(en.current, ctx,
                                            bool_op(ps[i][1], ps[i][2]), oo))
            IN IF o.err # NoErr THEN o
               ELSE IF a.err # NoErr THEN [o EXCEPT !.err = a.err]
               ELSE IF b.err # NoErr THEN [o EXCEPT !.err = b.err]
               ELSE IF a.ns.shape = "Empty" \/ b.ns.shape = "Empty"
               THEN apply_boolean(en.current, ctx, FALSE, o)
               ELSE each(zip(a.ns, b.ns), 1, o)
        \* bool_binary_op: bool_op at every child of current, or at current
        bool_binary_op ==
            LET RECURSIVE currents(_, _, _)
                currents(es, i, o) ==
                    IF i > Len(es) THEN o
                    ELSE currents(es, i + 1, bool_op_at([env EXCEPT !.current = es[i]], o))
            IN currents(IF ~out.multiple /\ ctx \in {"Property", "Index"}
                        THEN values(current) ELSE <<current>>, 1, out)
        \* Expr::Ancestors
        ancestors ==
            LET nmin == apply_one(env, "Expr", e.args[1])
                nmax == apply_one(env, "Expr", e.args[2])
                min == as_integer(nmin.ns.elems[1], 1)
                max == as_integer(nmax.ns.elems[1], MaxInt)
                RECURSIVE walk(_, _, _)
                walk(curr, level, o) ==
                    IF level > max THEN o
                    ELSE LET o1 == IF level >= min THEN NodeBuf_add(o, curr) ELSE o
                             p == IF curr.id = None THEN None ELSE md[curr.id].parent
                         IN IF p = None THEN o1 ELSE walk(NodeRef(val, p), level + 1, o1)
            IN IF nmin.err # NoErr THEN fail(nmin.err)
               ELSE IF nmax.err # NoErr THEN fail(nmax.err)
               ELSE IF min >= 0 /\ max >= min
               THEN walk(current, 0, [out EXCEPT !.multiple = TRUE])
               ELSE [out EXCEPT !.multiple = TRUE]
        \* Expr::Descendants
        descendants ==
            LET within(min, max) ==
                    IF min >= 0 /\ max >= min
                    THEN add_descendants(val, current, 0, min, max, [out EXCEPT !.multiple = TRUE])
                    ELSE [out EXCEPT !.multiple = TRUE]
                ranged(nmin, nmax) ==
                    IF nmin.err # NoErr THEN fail(nmin.err)
                    ELSE IF nmax.err # NoErr THEN fail(nmax.err)
                    ELSE within(as_integer(nmin.ns.elems[1], 1), as_integer(nmax.ns.elems[1], MaxInt))
            IN ranged(apply_one(env, "Expr", e.args[1]), apply_one(env, "Expr", e.args[2]))
        \* Expr::Range.  An absent start, step or stop is the expression None;
        \* a loop that can no longer reach its break is the error "never returns".
        range ==
            LET zero == Data(0, 1, "")
                \* f64 <: false with a NaN
                lt(x, y) == IF x.den = 0 \/ y.den = 0
                            THEN /\ ~(x.den = 0 /\ x.num = 0) /\ ~(y.den = 0 /\ y.num = 0)
                                 /\ x # y
                                 /\ ((x.den = 0 /\ x.num < 0) \/ (y.den = 0 /\ y.num > 0))
                            ELSE x.num * y.den < y.num * x.den
                got(r, default) ==
                    IF r.err # NoErr THEN [err |-> r.err, f |-> default]
                    ELSE [err |-> NoErr, f |-> as_float(r.ns.elems[1].v)]
                get_opt_float(x, default) ==
                    IF x.t = "None" THEN [err |-> NoErr, f |-> default]
                    ELSE got(apply_one(env, "Expr", x), default)
                RECURSIVE loop(_, _, _, _, _)
                loop(start, step, stop, up, o) ==
                    LET after(o1, next) ==
                            IF (up /\ lt(stop, next)) \/ (~up /\ lt(next, stop)) THEN o1
                            ELSE IF next.den = 0 \/ stop.den = 0
                            THEN [o1 EXCEPT !.err = [detail |-> "never returns", a |-> "", b |-> ""]]
                            ELSE loop(next, step, stop, up, o1)
                    IN after(apply_float(val, current, ctx, start, o), f64_op("+", start, step))
                stepped(start, stop, up, s) ==
                    IF s.err # NoErr THEN fail(s.err)
                    ELSE IF (up /\ lt(zero, s.f)) \/ (~up /\ lt(s.f, zero))
                    THEN loop(start, s.f, stop, up, out)
                    ELSE out
                run(start, stop) ==
                    IF start = stop /\ start.den # 0 THEN apply_float(val, current, ctx, start, out)
                    ELSE IF lt(start, stop)
                    THEN stepped(start, stop, TRUE, get_opt_float(e.args[2], Data(1, 1, "")))
                    ELSE stepped(start, stop, FALSE, get_opt_float(e.args[2], Data(-1, 1, "")))
                clamp(x, last) == IF lt(x, zero) THEN zero ELSE IF lt(last, x) THEN last ELSE x
                bounded(start, stop, last) ==
                    IF lt(stop, zero) /\ start = zero THEN out
                    ELSE IF lt(last, start) /\ lt(last, stop) THEN out
                    ELSE run(clamp(start, last), clamp(stop, last))
                from_end(x, len) == IF lt(x, zero) THEN f64_op("+", x, len) ELSE x
                ends(a, b, len) ==
                    IF a.err # NoErr THEN fail(a.err)
                    ELSE IF b.err # NoErr THEN fail(b.err)
                    ELSE IF len = 0 THEN run(a.f, b.f)
                    ELSE bounded(from_end(a.f, Data(len, 1, "")), from_end(b.f, Data(len, 1, "")),
                                 Data(len - 1, 1, ""))
                children(len) ==
                    IF len = 0 THEN out
                    ELSE ends(get_opt_float(e.args[1], zero),
                              get_opt_float(e.args[3], Data(len - 1, 1, "")), len)
            IN IF ctx \in {"Property", "Index"} THEN children(Len(values(current)))
               ELSE ends(get_opt_float(e.args[1], zero), get_opt_float(e.args[3], zero), 0)
        \* the inner fn bool_or of bool_or_op, at one current node
        bool_or(en, o) ==
            LET RECURSIVE emit(_, _, _)
                emit(nodes, i, oo) ==
                    IF i > Len(nodes) THEN oo
                    ELSE emit(nodes, i + 1, apply_node(val, md, en.current, ctx, nodes[i], oo))
                or(x, y) == IF as_boolean(x.v) THEN x ELSE y
                with_b(A, nb) ==
                    IF nb.err # NoErr THEN [o EXCEPT !.err = nb.err]
                    ELSE IF A.shape # "Many" THEN emit(nb.ns.elems, 1, o)
                    ELSE CASE nb.ns.shape = "Empty" -> emit(A.elems, 1, o)
                           [] nb.ns.shape = "One" ->
                                  emit([i \in 1..Len(A.elems) |-> or(A.elems[i], nb.ns.elems[1])], 1, o)
                           [] nb.ns.shape = "Many" ->
                                  emit([i \in 1..(IF Len(A.elems) < Len(nb.ns.elems)
                                                  THEN Len(A.elems) ELSE Len(nb.ns.elems)) |->
                                            or(A.elems[i], nb.ns.elems[i])], 1, o)
                with_a(na) ==
                    IF na.err # NoErr THEN [o EXCEPT !.err = na.err]
                    ELSE IF na.ns.shape = "One" /\ as_boolean(na.ns.elems[1].v)
                    THEN apply_node(val, md, en.current, ctx, na.ns.elems[1], o)
                    ELSE with_b(na.ns, apply(en, "Expr", e.args[2]))
            IN IF o.err # NoErr THEN o ELSE with_a(apply(en, "Expr", e.args[1]))
        \* the inner fn not_op of bool_not_op, at one current node
        not_at(en, o) ==
            LET RECURSIVE each(_, _, _)
                each(bs, i, oo) ==
                    IF i > Len(bs) THEN oo
                    ELSE each(bs, i + 1, apply_boolean(en.current, ctx, bs[i], oo))
                negated(a) ==
                    IF a.err # NoErr THEN [o EXCEPT !.err = a.err] ELSE each(not_op(a.ns), 1, o)
            IN IF o.err # NoErr THEN o ELSE negated(apply(en, "Expr", e.args[1]))
        \* bool_or_op and bool_not_op: at every child of current, or at current
        at_currents ==
            LET RECURSIVE currents(_, _, _)
                currents(es, i, o) ==
                    IF i > Len(es) THEN o
                    ELSE currents(es, i + 1,
                                  IF e.t = "Or" THEN bool_or([env EXCEPT !.current = es[i]], o)
                                  ELSE not_at([env EXCEPT !.current = es[i]], o))
            IN currents(IF ctx \in {"Property", "Index"} /\ (e.t = "Not" \/ ~out.multiple)
                        THEN values(current) ELSE <<current>>, 1, out)
        \* Expr::Sequence
        sequence ==
            LET RECURSIVE inner(_, _, _, _)
                inner(x, nodes, i, out2) ==
                    IF i > Len(nodes) \/ out2.err # NoErr THEN out2
                    ELSE inner(x, nodes, i + 1,
                               Expr_apply_to(val, md, [env EXCEPT !.current = nodes[i]],
                                             "Expr", x, out2))
                RECURSIVE outer(_, _)
                outer(i, out1) ==
                    IF i > Len(e.elems) \/ out1.err # NoErr THEN out1
                    ELSE outer(i + 1, inner(e.elems[i], out1.elems, 1,
                                            [NodeBuf_ok EXCEPT !.multiple = out1.multiple]))
                RECURSIVE emit(_, _, _)
                emit(nodes, i, o) ==
                    IF i > Len(nodes) THEN o
                    ELSE emit(nodes, i + 1, apply_node(val, md, current, ctx, nodes[i], o))
                out1 == outer(1, NodeBuf_add(NodeBuf_ok, current))
            IN IF out1.err # NoErr THEN fail(out1.err)
               ELSE IF ctx = "Index" THEN emit(out1.elems, 1, out)
               ELSE [out EXCEPT !.multiple = @ \/ out1.multiple, !.elems = @ \o out1.elems]
    IN CASE e.t = "String" -> apply_string(val, md, current, ctx, e.x.str, out)
         [] e.t = "Integer" -> apply_integer(val, current, ctx, e.x.num, out)
         [] e.t = "Float" -> apply_float(val, current, ctx, e.x, out)
         [] e.t = "Boolean" -> apply_boolean(current, ctx, e.x.num = 1, out)
         [] e.t = "Null" -> apply_null(current, ctx, out)
         [] e.t \in {"Add", "Sub", "Mul", "Div"} -> math_binary_op
         [] e.t \in {"Eq", "Ne"} -> bool_binary_op
         [] e.t \in {"Or", "Not"} -> at_currents
         [] e.t = "Root" -> NodeBuf_add(out, env.root)
         [] e.t = "Current" -> NodeBuf_add(out, current)
         [] e.t = "Parent" ->
                IF current.id # None /\ md[current.id].parent # None
                THEN NodeBuf_add(out, NodeRef(val, md[current.id].parent)) ELSE out
         [] e.t = "Ancestors" -> ancestors
         [] e.t = "Descendants" -> descendants
         [] e.t = "Range" -> range
         [] e.t = "All" ->
                Selected(val, current, [out EXCEPT !.multiple = TRUE],
                         get_child_all(val, current.id, NodeBuf_new))
         [] e.t = "Attribute" -> get_attr(md, current, e.x.str, out)
         [] e.t = "Property" ->
                Selected(val, current, out, get_child_key(val, current.id, e.id, NodeBuf_new))
         [] e.t = "PropertyExpr" -> Expr_apply_to(val, md, env, "Property", e.args[1], out)
         [] e.t = "Index" ->
                Selected(val, current, out, get_child_index(val, current.id, e.index, NodeBuf_new))
         [] e.t = "IndexExpr" -> Expr_apply_to(val, md, env, "Index", e.args[1], out)
         [] e.t = "Sequence" -> sequence
         [] e.t = "Var" ->
                IF bound(e.x.str) # {} THEN add_all(env.scope[CHOOSE i \in bound(e.x.str) : TRUE][2])
                ELSE out

(* ---- the document of the evaluator and of the matcher ---- *)

\* 1 = [2, 3, 4] with 2 = {a: "x", @key: 1, t: true}, 3 = {a: "y", t: false,
\* n: null} and 4 = [1, 2]; from 13 on, nodes that are not part of a tree
EvalValue ==
    <<ArrayValue(<<2, 3, 4>>),
      ObjectValue(<<"a", "@key", "t">>, <<5, 6, 11>>),
      ObjectValue(<<"a", "t", "n">>, <<7, 12, 10>>),
      ArrayValue(<<8, 9>>),
      Scalar("string", Data(0, 1, "x")).v,
      Scalar("integer", Data(1, 1, "")).v,
      Scalar("string", Data(0, 1, "y")).v,
      Scalar("integer", Data(1, 1, "")).v,
      Scalar("integer", Data(2, 1, "")).v,
      Scalar("null", Data(0, 1, "")).v,
      Scalar("boolean", Data(1, 1, "")).v,
      Scalar("boolean", Data(0, 1, "")).v,
      Scalar("integer", Data(2, 1, "")).v,
      Scalar("float", f64(2, 1)).v,
      Scalar("float", NAN).v,
      Scalar("string", Data(0, 1, "2")).v,
      Scalar("string", Data(0, 1, "true")).v,
      Scalar("string", Data(0, 1, "3aaa")).v,
      Scalar("binary", Data(0, 1, "2")).v,
      ArrayValue(<<>>),
      ObjectValue(<<>>, <<>>)>>

\* the metadata NodeRef::array and NodeRef::object give the children
\* (update_children_metadata), Metadata::new for the other nodes
EvalMetadata ==
    [n \in DOMAIN EvalValue |->
        IF \E q \in DOMAIN EvalValue : Occurs(EvalValue[q].elems, n)
        THEN LET q == CHOOSE q \in DOMAIN EvalValue : Occurs(EvalValue[q].elems, n)
                 i == LastPos(EvalValue[q].elems, n)
             IN [Metadata_new EXCEPT !.parent = q, !.index = i - 1,
                                     !.key = IF EvalValue[q].kind = "array" THEN to_string(i - 1)
                                             ELSE EvalValue[q].keys[i]]
        ELSE Metadata_new]

(* ---- NodePathMatcher (src/opath/matcher.rs) ---- *)

\* Opath::from of a handle: a new node has no parent, its path is $
Opath_of(val, md, n) ==
    IF n.id = None THEN Expr_Sequence(<<Expr_Root>>) ELSE Opath_from(val, md, n.id)

\* NodePathMatcher::insert
matcher_insert(val, md, ps, n) == ps \cup {Opath_of(val, md, n)}

\* NodePathMatcher::resolve that inserts only the first node of the result
matcher_resolve_first(val, md, ps, expr, root, current) ==
    LET insert(res) ==
            IF res.err # NoErr \/ Len(res.elems) = 0 THEN [paths |-> ps, err |-> res.err]
            ELSE [paths |-> matcher_insert(val, md, ps, res.elems[1]), err |-> NoErr]
    IN insert(Expr_apply_to(val, md, [root |-> root, current |-> current, scope |-> <<>>],
                            "Expr", expr, NodeBuf_ok))

\* NodePathMatcher::resolve: Opath::apply, then insert for every node of the
\* result; an Err is returned before anything is inserted
matcher_resolve(val, md, ps, expr, root, current) ==
    LET RECURSIVE each(_, _, _)
        each(nodes, i, acc) == IF i > Len(nodes) THEN acc
                               ELSE each(nodes, i + 1, matcher_insert(val, md, acc, nodes[i]))
        insert(res) ==
            IF res.err # NoErr THEN [paths |-> ps, err |-> res.err]
            ELSE [paths |-> each(res.elems, 1, ps), err |-> NoErr]
    IN insert(Expr_apply_to(val, md, [root |-> root, current |-> current, scope |-> <<>>],
                            "Expr", expr, NodeBuf_ok))

\* NodePathMatcher::matches
matches(ps, path) == path \in ps

\* NodePathMatcher::new
InitMatcher ==
    /\ value = EvalValue
    /\ metadata = EvalMetadata
    /\ op = FnCall("new", "new", <<>>, NoErr)
    /\ steps = 0
    /\ paths = {}
    /\ inserted = {}

Insert ==
    /\ steps < MaxSteps
    /\ \E n \in {m \in DOMAIN EvalValue : m = 1 \/ metadata[m].parent # None} :
          /\ paths' = matcher_insert(value, metadata, paths, NodeRef(value, n))
          /\ inserted' = inserted \cup {NodeRef(value, n)}
          /\ op' = FnCall("insert", "insert", <<n>>, NoErr)
    /\ steps' = steps + 1
    /\ UNCHANGED <<value, metadata>>

\* resolve of $.*, $[0].a, $[2].*, @, a literal, and of an Ancestors whose
\* lower bound is not a single node, which fails; inserted follows the result of the evaluation as the caller of
\* Opath::apply sees it (nothing for an Err)
Resolve ==
    /\ steps < MaxSteps
    /\ \E expr \in
            {Expr_Sequence(<<Expr_Root, Expr_All>>),
            Expr_Sequence(<<Expr_Root, Expr_Index(0), Expr_Property("a")>>),
            Expr_Sequence(<<Expr_Root, Expr_Index(2), Expr_All>>),
            Expr_Current,
            Expr_Literal("Integer", Data(1, 1, "")),
            Expr_Sequence(<<Expr_Root, Expr_All,
                            Expr_Op("Ancestors", <<Expr_All, Expr_Literal("Integer", Data(1, 1, ""))>>)>>)},
          current \in {1, 2, 9} :
          LET env == [root |-> NodeRef(value, 1), current |-> NodeRef(value, current), scope |-> <<>>]
              returned(res, r) ==
                  /\ paths' = r.paths
                  /\ inserted' = IF res.err # NoErr THEN inserted
                                 ELSE inserted \cup {res.elems[i] : i \in 1..Len(res.elems)}
                  /\ op' = FnCall("resolve", "resolve", <<expr, current>>, r.err)
          IN returned(Expr_apply_to(value, metadata, env, "Expr", expr, NodeBuf_ok),
                      matcher_resolve(value, metadata, paths, expr, env.root, env.current))
    /\ steps' = steps + 1
    /\ UNCHANGED <<value, metadata>>

\* NodePathMatcher::clear
Clear ==
    /\ steps < MaxSteps
    /\ paths' = {}
    /\ inserted' = {}
    /\ op' = FnCall("clear", "clear", <<>>, NoErr)
    /\ steps' = steps + 1
    /\ UNCHANGED <<value, metadata>>

NextMatcher == Insert \/ Resolve \/ Clear

SpecMatcher == InitMatcher /\ [][NextMatcher]_vars

\* the calls of Expr::apply(env, ctx) drawn: expression, context, current
\* node and the variables of the scope; the root is node 1
(* ---- Opath::parent_path (src/opath/opath.rs) ---- *)

\* parent_path that does not require the first step to be the root
parent_path_unanchored(expr) ==
    IF expr.t # "Sequence" \/ Len(expr.elems) < 2 THEN [some |-> FALSE, path |-> <<>>]
    ELSE IF \A i \in 2..(Len(expr.elems) - 1) : expr.elems[i].t \in {"Property", "Index"}
    THEN [some |-> TRUE, path |-> SubSeq(expr.elems, 1, Len(expr.elems) - 1)]
    ELSE [some |-> FALSE, path |-> <<>>]

\* Opath::parent_path: Some(path) or None.  Property(String) and
\* Index(Integer) of opath.rs are the literal accessors Property(id) and
\* Index(i) of the model; an accessor with any other expression is
\* PropertyExpr or IndexExpr.
parent_path(expr) ==
    IF expr.t # "Sequence" \/ Len(expr.elems) < 2 THEN [some |-> FALSE, path |-> <<>>]
    ELSE IF expr.elems[1].t # "Root" THEN [some |-> FALSE, path |-> <<>>]
    ELSE IF \A i \in 2..(Len(expr.elems) - 1) : expr.elems[i].t \in {"Property", "Index"}
    THEN [some |-> TRUE, path |-> SubSeq(expr.elems, 1, Len(expr.elems) - 1)]
    ELSE [some |-> FALSE, path |-> <<>>]

(* ---- the JSON parser (src/serial/fmt/json.rs), on the tokens of the lexer ---- *)

\* Parser::parse_value with parse_object and parse_array: the terminals are
\* "{", "}", "[", "]", ":", ",", a number "1" and a string literal "a", and
\* END behind the last token; the result is the position behind the value,
\* or the error
RECURSIVE parse_value(_, _)
parse_value(ts, p) ==
    LET term(i) == IF i > Len(ts) THEN "END" ELSE ts[i]
        ok(i) == [err |-> FALSE, pos |-> i]
        unexpected_token(i) == [err |-> TRUE, pos |-> i]
        RECURSIVE parse_object(_, _, _, _)
        parse_object(i, comma, literal, props) ==
            LET inserted_at(v) ==
                    IF v.err THEN v
                    ELSE IF term(i) \in props THEN unexpected_token(i)
                    ELSE parse_object(v.pos, TRUE, FALSE, props \cup {term(i)})
            IN CASE term(i) = "}" /\ (comma \/ literal) -> ok(i + 1)
                 [] term(i) = "," /\ comma -> parse_object(i + 1, FALSE, literal, props)
                 [] term(i) = "a" /\ ~comma ->
                        IF term(i + 1) # ":" THEN unexpected_token(i + 1)
                        ELSE inserted_at(parse_value(ts, i + 2))
                 [] OTHER -> unexpected_token(i)
        RECURSIVE parse_array(_, _, _)
        parse_array(i, comma, bracket_right) ==
            LET pushed(v) == IF v.err THEN v ELSE parse_array(v.pos, TRUE, TRUE)
            IN CASE term(i) = "]" /\ bracket_right -> ok(i + 1)
                 [] term(i) = "," /\ comma -> parse_array(i + 1, FALSE, FALSE)
                 [] ~comma -> pushed(parse_value(ts, i))
                 [] OTHER -> unexpected_token(i)
    IN CASE term(p) = "{" -> parse_object(p + 1, FALSE, TRUE, {})
         [] term(p) = "[" -> parse_array(p + 1, FALSE, TRUE)
         [] term(p) \in {"1", "a"} -> ok(p + 1)
         [] OTHER -> unexpected_token(p)

\* Parser::parse: the token queue is cleared and one value is parsed
Parser_parse(ts) == parse_value(ts, 1)

(* ---- ownership: is_consumable and into_consumable ---- *)

\* Node::is_root: the node has no parent
is_root(md, n) == md[n].parent = None

\* is_consumable that does not look at the strong count
is_consumable_unparented(val, md, n, handles) == is_root(md, n)

\* NodeRef::is_consumable.  Rc::strong_count is the number of NodeRefs to the
\* node: one for every child slot that holds it and the handles the callers
\* hold, the one the method is called on included.
is_consumable(val, md, n, handles) ==
    LET slots(p) == Cardinality({i \in 1..Len(val[p].elems) : val[p].elems[i] = n})
        RECURSIVE held(_)
        held(ps) == IF ps = {} THEN 0
                    ELSE LET p == CHOOSE p \in ps : TRUE IN slots(p) + held(ps \ {p})
    IN is_root(md, n) /\ held(Allocated(val)) + handles = 1

\* NodeRef::into_consumable: self, or self.deep_copy()
into_consumable(val, md, n, handles) ==
    IF is_consumable(val, md, n, handles) THEN [value |-> val, metadata |-> md, node |-> n]
    ELSE deep_copy(val, md, n)

(* ---- the wire form of a node set (serde, with serde_json as the format) ---- *)

\* impl Serialize for NodeRef, written by serde_json: null and a float that
\* is not finite are written as null, a binary as the sequence of its bytes,
\* an array and an object with their children in order
RECURSIVE NodeRef_serialize(_, _)
NodeRef_serialize(val, v) ==
    LET token(t, data, keys, elems) == [t |-> t, data |-> data, keys |-> keys, elems |-> elems]
        children == [i \in 1..Len(v.elems) |-> NodeRef_serialize(val, val[v.elems[i]])]
        \* the bytes of the binary values of the document
        bytes(str) == IF str = "" THEN <<>>
                      ELSE <<token("i64", Data(IF str = "2" THEN 50 ELSE 63, 1, ""), <<>>, <<>>)>>
    IN CASE v.kind = "null" -> token("null", Data(0, 1, ""), <<>>, <<>>)
         [] v.kind = "boolean" -> token("bool", v.data, <<>>, <<>>)
         [] v.kind = "integer" -> token("i64", v.data, <<>>, <<>>)
         [] v.kind = "float" -> IF v.data.den = 0 THEN token("null", Data(0, 1, ""), <<>>, <<>>)
                                ELSE token("f64", v.data, <<>>, <<>>)
         [] v.kind = "string" -> token("str", v.data, <<>>, <<>>)
         [] v.kind = "binary" -> token("seq", Data(0, 1, ""), <<>>, bytes(v.data.str))
         [] v.kind = "array" -> token("seq", Data(0, 1, ""), <<>>, children)
         [] v.kind = "object" -> token("map", Data(0, 1, ""), v.keys, children)

\* NodeVisitor (impl Deserialize for NodeRef): a new node for every value
\* read, the children of a sequence or a map being new nodes as well
RECURSIVE NodeVisitor(_)
NodeVisitor(token) ==
    LET children == [i \in 1..Len(token.elems) |-> NodeVisitor(token.elems[i])]
    IN CASE token.t = "null" -> Scalar("null", Data(0, 1, ""))
         [] token.t = "bool" -> Scalar("boolean", token.data)
         [] token.t = "i64" -> Scalar("integer", token.data)
         [] token.t = "f64" -> Scalar("float", token.data)
         [] token.t = "str" -> Scalar("string", token.data)
         [] token.t = "seq" -> [id |-> None, v |-> ArrayValue(children)]
         [] token.t = "map" -> [id |-> None, v |-> ObjectValue(token.keys, children)]

\* derive(Serialize) for NodeSet with tag = "type", content = "data" and
\* kebab-case variant names
NodeSet_serialize(val, s) ==
    CASE s.shape = "Empty" -> [type |-> "empty", data |-> <<>>]
      [] s.shape = "One" -> [type |-> "one", data |-> <<NodeRef_serialize(val, s.elems[1].v)>>]
      [] s.shape = "Many" ->
             [type |-> "many",
              data |-> [i \in 1..Len(s.elems) |-> NodeRef_serialize(val, s.elems[i].v)]]

\* a deserializer that tells One from Many by the number of values
NodeSet_deserialize_untagged(w) ==
    IF Len(w.data) = 0 THEN NodeSet("Empty", <<>>)
    ELSE NodeSet(IF Len(w.data) = 1 THEN "One" ELSE "Many",
                 [i \in 1..Len(w.data) |-> NodeVisitor(w.data[i])])

\* derive(Deserialize) for NodeSet: the variant is the one the tag names
NodeSet_deserialize(w) ==
    CASE w.type = "empty" -> NodeSet("Empty", <<>>)
      [] w.type = "one" -> NodeSet("One", <<NodeVisitor(w.data[1])>>)
      [] w.type = "many" -> NodeSet("Many", [i \in 1..Len(w.data) |-> NodeVisitor(w.data[i])])

ApplyCalls ==
    LET call(e, ctx, current, scope) == FnCall("call", "apply", <<e, ctx, current, scope>>, <<>>)
        a == Expr_Sequence(<<Expr_Current, Expr_Property("a")>>)
        t == Expr_Sequence(<<Expr_Current, Expr_Property("t")>>)
        all == Expr_Sequence(<<Expr_Current, Expr_All>>)
        cmps == {Expr_Op(o, x) : o \in {"Eq", "Ne"},
                                x \in {<<a, Expr_Literal("String", Data(0, 1, "x"))>>,
                                       <<t, Expr_Literal("Boolean", Data(1, 1, ""))>>,
                                       <<Expr_Literal("Integer", Data(1, 1, "")), all>>,
                                       <<Expr_Literal("Null", Data(0, 1, "")), Expr_Literal("Null", Data(0, 1, ""))>>}}
        literals == {Expr_Literal("Boolean", Data(1, 1, "")), Expr_Literal("Boolean", Data(0, 1, "")),
                     Expr_Literal("Null", Data(0, 1, "")), Expr_Literal("String", Data(0, 1, "a")),
                     Expr_Literal("String", Data(0, 1, "@key")), Expr_Literal("Integer", Data(1, 1, ""))}
        filters == cmps \cup {Expr_Op("IndexExpr", <<c>>) : c \in cmps}
                        \cup {Expr_Op("IndexExpr", <<x>>) :
                                x \in {a, t, Expr_Sequence(<<Expr_Current, Expr_Property("n")>>)}}
        \* $hosts[cmp] with hosts bound to a node set of the children of 1
        hosts == {NodeSet("Many", [i \in 1..Len(ns) |-> NodeRef(value, ns[i])]) :
                     ns \in {<<2, 3, 4>>, <<4, 3, 2>>, <<3, 3>>, <<2>>, <<3>>}}
                 \cup {NodeSet("One", <<NodeRef(value, 2)>>)}
        \* $x op $y with x and y unbound or bound to one or several numbers
        operands == {NodeSet("One", <<NodeRef(value, n)>>) :
                        n \in {1, 2, 4, 5, 6, 10, 11, 13, 14, 15, 16, 18, 19, 20, 21}}
                    \cup {NodeSet("Many", [i \in 1..Len(ns) |-> NodeRef(value, ns[i])]) :
                             ns \in {<<9>>, <<8, 14>>, <<6, 13, 9>>}}
        levels == {Expr_Literal("Integer", Data(i, 1, "")) : i \in -1..MaxInt}
                  \cup {Expr_All, Expr_Property("zz")}
        ends == {Expr_Literal("Integer", Data(i, 1, "")) : i \in -4..3}
                \cup {Expr_Literal("None", Data(0, 1, "")), Expr_Literal("String", Data(0, 1, "a")),
                      Expr_Literal("Float", f64(1, 0)), Expr_Literal("Float", f64(-1, 0)), Expr_All}
        choices == {NodeSet("One", <<NodeRef(value, n)>>) : n \in {5, 10, 11, 12, 20}}
                   \cup {NodeSet("Many", [i \in 1..Len(ns) |-> NodeRef(value, ns[i])]) :
                            ns \in {<<12, 5>>, <<10, 12, 6>>, <<5, 7, 8>>, <<9>>, <<10>>}}
    IN {call(e, ctx, current, <<>>) : e \in literals \cup filters,
                                     ctx \in {"Expr", "Property", "Index"},
                                     current \in {1, 2, 3, 4, 5}}
       \cup {call(Expr_Sequence(<<Expr_Literal("Var", Data(0, 1, "hosts")),
                                  Expr_Op("IndexExpr", <<c>>)>>),
                  "Expr", 1, <<<<"hosts", h>>>>) : c \in cmps, h \in hosts}
       \cup {call(Expr_Op(o, <<Expr_Literal("Var", Data(0, 1, "x")),
                               Expr_Literal("Var", Data(0, 1, "y"))>>),
                  "Expr", 1, sx \o sy) :
                o \in {"Add", "Sub", "Mul", "Div"},
                sx \in {<<>>} \cup {<<<<"x", A>>>> : A \in operands},
                sy \in {<<>>} \cup {<<<<"y", B>>>> : B \in operands}}
       \* .id as Property(id), as Attribute(attr) and as PropertyExpr('id')
       \cup {call(e, "Expr", current, <<>>) :
                e \in {Expr_Property(id) : id \in {"a", "t", "@key", "@index", "0", "zz"}}
                      \cup {Expr_Literal("Attribute", Data(0, 1, id)) : id \in {"@key", "@index"}}
                      \cup {Expr_Op("PropertyExpr", <<Expr_Literal("String", Data(0, 1, id))>>) :
                               id \in {"a", "@key", "@index"}},
                current \in {1, 2, 3, 4, 5}}
       \* the ancestors and the descendants of a node at the levels min..max,
       \* and with a bound that is several nodes or none
       \cup {call(Expr_Op(o, <<lo, hi>>), "Expr", current, <<>>) :
                o \in {"Ancestors", "Descendants"},
                lo \in levels, hi \in levels, current \in {1, 2, 4, 5, 8, 13}}
       \* start:step:stop as a value and as a selector, each part absent, an
       \* integer, a string that is no number, an infinity, or several nodes
       \cup {call(Expr_Op("Range", <<start, step, stop>>), ctx, current, <<>>) :
                start \in ends, stop \in ends,
                step \in {Expr_Literal("None", Data(0, 1, "")), Expr_Literal("String", Data(0, 1, "a")),
                          Expr_Literal("Float", f64(1, 0))}
                         \cup {Expr_Literal("Integer", Data(i, 1, "")) : i \in {-1, 0, 1, 2}},
                ctx \in {"Expr", "Index"}, current \in {1, 4, 5}}
       \* $x || $y and $x || (an expression that fails), with x and y unbound
       \* or bound to truthy and falsy nodes
       \cup {call(Expr_Op("Or", <<Expr_Literal("Var", Data(0, 1, "x")), b[1]>>),
                  "Expr", 1, sx \o b[2]) :
                sx \in {<<>>} \cup {<<<<"x", A>>>> : A \in choices},
                b \in {<<Expr_Literal("Var", Data(0, 1, "y")), <<>> >>,
                       <<Expr_Op("Ancestors", <<Expr_All, Expr_Literal("Integer", Data(1, 1, ""))>>),
                         <<>> >>}
                      \cup {<<Expr_Literal("Var", Data(0, 1, "y")), <<<<"y", B>>>> >> :
                               B \in choices}}
       \* [!(a == b)] next to [a != b], and ! as a value
       \cup {call(Expr_Op("Not", <<c>>), ctx, current, <<>>) :
                c \in cmps \cup literals, ctx \in {"Expr", "Index"}, current \in {1, 2, 3, 4, 5}}
       \* i op j for every pair of integers
       \cup {call(Expr_Op(o, <<Expr_Literal("Integer", Data(i, 1, "")),
                               Expr_Literal("Integer", Data(j, 1, ""))>>),
                  "Expr", 1, <<>>) :
                o \in {"Add", "Sub", "Mul"}, i \in MinInt..MaxInt, j \in MinInt..MaxInt}

\* the forests into_consumable runs on: the tree 1 = [2], 2 = {a: 3}, alone
\* and next to the root 4, a string
OwnedForests ==
    LET md == update_children_metadata(InitValue,
                  update_children_metadata(InitValue, InitMetadata, 2), 1)
    IN {[value |-> InitValue, metadata |-> md],
        [value |-> [InitValue EXCEPT ![4] = ScalarValue("string", 0)], metadata |-> md]}

FnCalls ==
    LET JsonInputs(len) ==
            UNION {[1..n -> {"{", "}", "[", "]", ":", ",", "1", "a"}] : n \in 0..len}
        \* the expressions parent_path is asked about: sequences of up to four
        \* steps, the paths of the nodes of the document, and expressions that
        \* are no sequence
        PathSteps ==
            {Expr_Root, Expr_Current, Expr_All, Expr_Property("a"), Expr_Index(0),
             Expr_Op("IndexExpr", <<Expr_Literal("String", Data(0, 1, "a"))>>)}
        PathExprs ==
            {Expr_Sequence(es) : es \in UNION {[1..n -> PathSteps] : n \in 0..3}}
            \cup {Expr_Sequence(<<Expr_Root, a, b, c>>) :
                     a \in PathSteps, b \in PathSteps, c \in PathSteps}
            \cup {Opath_from(value, metadata, n) : n \in 1..12}
            \cup {Expr_Root, Expr_Property("a"), Expr_Literal("Integer", Data(1, 1, ""))}
    IN
    ApplyCalls \cup
    {FnCall("call", "from_str", <<s, f>>, <<>>) :
        s \in [utf8 : {TRUE}, parses : BOOLEAN], f \in FileFormat}
    \cup {FnCall("call", "from_bytes", <<s, f>>, <<>>) :
        s \in [utf8 : BOOLEAN, parses : BOOLEAN], f \in FileFormat}
    \cup {FnCall("call", "is_equal", <<NodeRef(value, a), NodeRef(value, b)>>, <<>>) :
        a \in DOMAIN value, b \in DOMAIN value}
    \cup {FnCall("call", "parent_path", <<e>>, <<>>) : e \in PathExprs}
    \* the inputs of the JSON parser: every sequence of up to MaxTokens
    \* terminals, and the object {"a": 1 followed by a shorter sequence
    \cup {FnCall("call", "parse", <<ts>>, <<>>) :
        ts \in JsonInputs(MaxTokens)
               \cup {<<"{", "a", ":", "1">> \o tail : tail \in JsonInputs(MaxTokens - 2)}}
    \* node sets over the nodes of a forest, and the handles other owners hold
    \cup {FnCall("call", "into_consumable", <<f, ns, others>>, <<>>) :
        f \in OwnedForests,
        ns \in UNION {[1..n -> 1..4] : n \in 0..2},
        others \in 0..1}
    \* the node sets that are written and read back: every node of the
    \* document alone, an infinite float, and several nodes together
    \cup {FnCall("call", "node_set", <<s>>, <<>>) :
        s \in {NodeSet("Empty", <<>>), NodeSet("One", <<Scalar("float", f64(1, 0))>>)}
              \cup {NodeSet("One", <<NodeRef(value, n)>>) : n \in DOMAIN value}
              \cup {NodeSet("Many", [i \in 1..Len(ns) |-> NodeRef(value, ns[i])]) :
                       ns \in {<<5, 6>>, <<9>>, <<2, 5>>, <<14, 10, 11>>, <<15>>, <<19, 16>>,
                               <<>>}}}

InitFn == /\ value = EvalValue
          /\ metadata = EvalMetadata
          /\ op \in FnCalls
          /\ steps = 0
          /\ paths = {}
          /\ inserted = {}

Return(ret) == /\ op' = FnCall(op.fn, op.fn, op.args, ret)
               /\ steps' = steps + 1
               /\ UNCHANGED <<value, metadata, paths, inserted>>

FromStr == /\ op.name = "call" /\ op.fn = "from_str"
           /\ Return(from_str(op.args[1], op.args[2]))

FromBytes == /\ op.name = "call" /\ op.fn = "from_bytes"
             /\ Return(from_bytes(op.args[1], op.args[2]))

\* Expr::apply(env, ctx): the node set, or the error
ExprApply ==
    /\ op.name = "call" /\ op.fn = "apply"
    /\ LET env == [root |-> NodeRef(value, 1), current |-> NodeRef(value, op.args[3]),
                   scope |-> op.args[4]]
           result(out) == [ns |-> into_node_set(out), err |-> out.err]
       IN Return(result(Expr_apply_to(value, metadata, env, op.args[2], op.args[1], NodeBuf_ok)))

\* a.is_equal(&b) for two nodes of the document
IsEqual ==
    /\ op.name = "call" /\ op.fn = "is_equal"
    /\ Return([equal |-> is_equal(value, op.args[1], op.args[2])])

\* Opath::parent_path of an expression
ParentPath ==
    /\ op.name = "call" /\ op.fn = "parent_path"
    /\ Return(parent_path(op.args[1]))

\* tests::node_set: a node set is written, read back and compared with ==
\* (derive(PartialEq): the same variant with equal nodes)
NodeSetRoundTrip ==
    /\ op.name = "call" /\ op.fn = "node_set"
    /\ LET compared(s, d) ==
               [set |-> d,
                eq |-> /\ s.shape = d.shape
                       /\ Len(s.elems) = Len(d.elems)
                       /\ \A i \in 1..Len(s.elems) : is_equal(value, s.elems[i], d.elems[i])]
       IN Return(compared(op.args[1], NodeSet_deserialize(NodeSet_serialize(value, op.args[1]))))

\* NodeSet::into_consumable: every node of the set in turn.  The set holds
\* one handle for each of its elements; the handle of an element is dropped
\* when the element was copied.
IntoConsumable ==
    /\ op.name = "call" /\ op.fn = "into_consumable"
    /\ \A i \in 1..Len(op.args[2]) : op.args[1].value[op.args[2][i]].kind # "free"
    /\ LET ns == op.args[2]
           \* the handles to n that the elements from i on and the others hold
           handles(n, i) == Cardinality({j \in i..Len(ns) : ns[j] = n}) + op.args[3]
           RECURSIVE map(_, _)
           map(i, r) ==
               IF i > Len(ns) \/ ~r.fits THEN r
               ELSE LET c == is_consumable(r.value, r.metadata, ns[i], handles(ns[i], i))
                        copied(d) == [value |-> d.value, metadata |-> d.metadata,
                                      nodes |-> Append(r.nodes, d.node),
                                      consumable |-> Append(r.consumable, c),
                                      fits |-> TRUE]
                    IN IF ~c /\ copy_size(r.value, ns[i], NumNodes)
                                  > Cardinality(Node \ Allocated(r.value))
                       THEN [r EXCEPT !.fits = FALSE]
                       ELSE map(i + 1, copied(into_consumable(r.value, r.metadata, ns[i],
                                                              handles(ns[i], i))))
           returned(r) == r.fits /\ Return(r)
       IN returned(map(1, [value |-> op.args[1].value, metadata |-> op.args[1].metadata,
                           nodes |-> <<>>, consumable |-> <<>>, fits |-> TRUE]))

\* Parser::parse on the tokens of an input
ParseJson ==
    /\ op.name = "call" /\ op.fn = "parse"
    /\ Return(Parser_parse(op.args[1]))

NextFn == \/ FromStr \/ FromBytes \/ ExprApply \/ IsEqual \/ ParentPath \/ NodeSetRoundTrip
          \/ IntoConsumable \/ ParseJson

SpecFn == InitFn /\ [][NextFn]_vars

C12_MatcherPaths ==
    /\ [](\A p \in paths \cup {Opath_of(value, metadata, n) : n \in inserted} :
            matches(paths, p) <=> \E n \in inserted : p = Opath_of(value, metadata, n))
    /\ [][op'.name = "resolve" /\ op'.ret # NoErr => paths' = paths]_vars

\* a failing resolve after a resolve that has inserted several paths
C12_Witness ==
    op.name = "resolve" /\ op.ret # NoErr /\ Cardinality(paths) >= 3

\* C13: in Property or Index context a Boolean true emits the current node,
\* a Boolean false and a Null emit nothing (as literals, and as the nodes a
\* selector evaluates to); in Expr context they are appended as boolean and
\* null value nodes.  Hence a comparison in selector context is a filter: it
\* keeps a node, once per comparison made with that node as current, exactly
\* when the comparison evaluated in Expr context at that node is true.  The
\* nodes it is made at are the children of the current node, the buffer of a
\* top-level evaluation not being flagged multiple.
C13_BooleanNullContext ==
    op.name = "apply" =>
        LET e == op.args[1]
            ctx == op.args[2]
            cur == NodeRef(value, op.args[3])
            ns == op.ret.ns
            selector == ctx \in {"Property", "Index"}
            Empty == NodeSet("Empty", <<>>)
            at(c, x) == into_node_set(Expr_apply_to(value, metadata,
                            [root |-> NodeRef(value, 1), current |-> c, scope |-> op.args[4]],
                            "Expr", x, NodeBuf_ok))
            RECURSIVE kept(_, _, _)
            kept(c, bs, i) ==
                IF i > Len(bs) THEN <<>>
                ELSE (IF bs[i].v.kind = "boolean" /\ bs[i].v.data.num = 1 THEN <<c>> ELSE <<>>)
                     \o kept(c, bs, i + 1)
            RECURSIVE filtered(_, _, _)
            filtered(cs, x, i) ==
                IF i > Len(cs) THEN <<>>
                ELSE kept(cs[i], at(cs[i], x).elems, 1) \o filtered(cs, x, i + 1)
            children == [i \in 1..Len(cur.v.elems) |-> NodeRef(value, cur.v.elems[i])]
        IN /\ e.t = "Boolean" /\ selector =>
                 ns = IF e.x.num = 1 THEN NodeSet("One", <<cur>>) ELSE Empty
           /\ e.t = "Null" /\ selector => ns = Empty
           /\ e.t = "Boolean" /\ ~selector => ns = NodeSet("One", <<Scalar("boolean", e.x)>>)
           /\ e.t = "Null" /\ ~selector => ns = NodeSet("One", <<Scalar("null", e.x)>>)
           /\ e.t = "IndexExpr" /\ e.args[1].t = "Sequence" /\ at(cur, e.args[1]).shape = "One" =>
                 LET n == at(cur, e.args[1]).elems[1]
                 IN /\ n.v.kind = "boolean" =>
                         ns = IF n.v.data.num = 1 THEN NodeSet("One", <<cur>>) ELSE Empty
                    /\ n.v.kind = "null" => ns = Empty
           /\ e.t \in {"Eq", "Ne"} /\ selector => ns.elems = filtered(children, e, 1)
           /\ e.t = "IndexExpr" /\ e.args[1].t \in {"Eq", "Ne"} =>
                 ns.elems = filtered(children, e.args[1], 1)

\* a filter [@.a == 'x'] on the array 1 that keeps one of its three children
C13_Witness ==
    /\ op.name = "apply" /\ op.args[3] = 1
    /\ op.args[1].t = "IndexExpr" /\ op.args[1].args[1].t = "Eq"
    /\ op.ret.ns = NodeSet("One", <<NodeRef(value, 2)>>)

\* C14 as stated: a Sequence step that applies an Index-context comparison
\* to a buffer flagged multiple (a variable bound to a Many node set) yields
\* exactly the buffered nodes at which the comparison is true, in their
\* order, and the result is a Many node set.
C14_ManyFilter ==
    (op.name = "apply" /\ op.args[1].t = "Sequence" /\ op.args[4] # <<>>
        /\ op.args[4][1][2].shape = "Many") =>
        LET cmp == op.args[1].elems[2].args[1]
            buf == op.args[4][1][2].elems
            at(c) == into_node_set(Expr_apply_to(value, metadata,
                         [root |-> NodeRef(value, 1), current |-> c, scope |-> op.args[4]],
                         "Expr", cmp, NodeBuf_ok))
            true_at(c) == at(c) = NodeSet("One", <<Scalar("boolean", Data(1, 1, ""))>>)
        IN (\A i \in 1..Len(buf) : at(buf[i]).shape # "Many") =>
              /\ op.ret.ns.elems = SelectSeq(buf, true_at)
              /\ op.ret.ns.shape = "Many"

\* C14, amended: the result is those buffered nodes, in their order, as a
\* Many node set when there is at least one of them (also when there is
\* exactly one), and the Empty node set when there is none.
C14_ManyFilterOrEmpty ==
    (op.name = "apply" /\ op.args[1].t = "Sequence" /\ op.args[4] # <<>>
        /\ op.args[4][1][2].shape = "Many") =>
        LET cmp == op.args[1].elems[2].args[1]
            buf == op.args[4][1][2].elems
            at(c) == into_node_set(Expr_apply_to(value, metadata,
                         [root |-> NodeRef(value, 1), current |-> c, scope |-> op.args[4]],
                         "Expr", cmp, NodeBuf_ok))
            true_at(c) == at(c) = NodeSet("One", <<Scalar("boolean", Data(1, 1, ""))>>)
        IN (\A i \in 1..Len(buf) : at(buf[i]).shape # "Many") =>
              /\ op.ret.ns.elems = SelectSeq(buf, true_at)
              /\ op.ret.ns.shape = IF SelectSeq(buf, true_at) = <<>> THEN "Empty" ELSE "Many"

\* $hosts[@.a != 'x'] with hosts bound to Many [4, 3, 2] keeps 3 alone, as a
\* Many node set
C14_Witness ==
    /\ op.name = "apply" /\ op.args[1].t = "Sequence" /\ op.args[4] # <<>>
    /\ op.args[4][1][2] = NodeSet("Many", <<NodeRef(value, 4), NodeRef(value, 3), NodeRef(value, 2)>>)
    /\ op.args[1].elems[2].args[1].t = "Ne"
    /\ op.ret.ns = NodeSet("Many", <<NodeRef(value, 3)>>)

\* C15: Add, Sub, Mul and Div of operand node sets A and B give the single
\* float NaN when A or B is Empty, one result for One with One, one result
\* per element of the Many side, in order, for One with Many and Many with
\* One, and for Many with Many the results of the pairs by position, as many
\* as the shorter side has.
C15_OperandShapes ==
    (/\ op.name = "apply" /\ op.args[1].t \in {"Add", "Sub", "Mul", "Div"}
     /\ op.args[1].args[1].t = "Var") =>
        LET scope == op.args[4]
            of(id) == IF \E i \in 1..Len(scope) : scope[i][1] = id
                      THEN scope[CHOOSE i \in 1..Len(scope) : scope[i][1] = id][2]
                      ELSE NodeSet("Empty", <<>>)
            A == of("x")
            B == of("y")
            min == IF Len(A.elems) < Len(B.elems) THEN Len(A.elems) ELSE Len(B.elems)
            n == CASE A.shape = "One" /\ B.shape = "One" -> 1
                   [] A.shape = "One" -> Len(B.elems)
                   [] B.shape = "One" -> Len(A.elems)
                   [] OTHER -> min
            a(i) == IF A.shape = "One" THEN A.elems[1] ELSE A.elems[i]
            b(i) == IF B.shape = "One" THEN B.elems[1] ELSE B.elems[i]
            res(i) == CASE op.args[1].t = "Add" -> add(value, a(i), b(i))
                        [] op.args[1].t = "Sub" -> sub(a(i), b(i))
                        [] op.args[1].t = "Mul" -> mul(a(i), b(i))
                        [] op.args[1].t = "Div" -> div(a(i), b(i))
        IN /\ op.ret.err = NoErr
           /\ IF A.shape = "Empty" \/ B.shape = "Empty"
              THEN op.ret.ns = NodeSet("One", <<Scalar("float", NAN)>>)
              ELSE op.ret.ns.elems = [i \in 1..n |-> res(i)]

\* $x - $y with x bound to Many [8, 14] and y to Many [6, 13, 9] gives the
\* two results 1 - 1 and 2.0 - 2
C15_Witness ==
    /\ op.name = "apply" /\ op.args[1].t = "Sub" /\ Len(op.args[4]) = 2
    /\ Len(op.args[4][1][2].elems) = 2 /\ Len(op.args[4][2][2].elems) = 3
    /\ Len(op.ret.ns.elems) = 2
    /\ op.ret.ns.elems[1] = Scalar("integer", Data(0, 1, ""))
    /\ op.ret.ns.elems[2] = Scalar("float", f64(0, 1))

\* C16 as stated: Add of two single nodes of which one is a string, an array
\* or an object yields the String node that concatenates the string forms of
\* the left and of the right operand.
C16_AddConcatenates ==
    (/\ op.name = "apply" /\ op.args[1].t = "Add" /\ Len(op.args[4]) = 2
     /\ op.args[4][1][2].shape = "One" /\ op.args[4][2][2].shape = "One") =>
        LET a == op.args[4][1][2].elems[1].v
            b == op.args[4][2][2].elems[1].v
        IN (a.kind \in {"string", "array", "object"} \/ b.kind \in {"string", "array", "object"}) =>
              op.ret.ns = NodeSet("One", <<Scalar("string",
                              Data(0, 1, as_string(value, a) \o as_string(value, b)))>>)

\* C16, amended: the same, unless the left operand is an object and the right
\* operand is not an object; then Add yields a Float node: 0 plus the float
\* form of the right operand, and for a right operand that is an array 0 when
\* it is empty and NaN when it is not.
C16_AddConcatenatesUnlessObjectLeft ==
    (/\ op.name = "apply" /\ op.args[1].t = "Add" /\ Len(op.args[4]) = 2
     /\ op.args[4][1][2].shape = "One" /\ op.args[4][2][2].shape = "One") =>
        LET a == op.args[4][1][2].elems[1].v
            b == op.args[4][2][2].elems[1].v
        IN (a.kind \in {"string", "array", "object"} \/ b.kind \in {"string", "array", "object"}) =>
              op.ret.ns = NodeSet("One", <<
                  IF a.kind = "object" /\ b.kind # "object"
                  THEN Scalar("float",
                           IF b.kind = "array"
                           THEN (IF Len(b.elems) = 0 THEN f64(0, 1) ELSE NAN)
                           ELSE f64_op("+", f64(0, 1), as_float(b)))
                  ELSE Scalar("string", Data(0, 1, as_string(value, a) \o as_string(value, b)))>>)

\* 1 + [1, 2] is the string "11,2"
C16_Witness ==
    /\ op.name = "apply" /\ op.args[1].t = "Add" /\ Len(op.args[4]) = 2
    /\ op.args[4][1][2] = NodeSet("One", <<NodeRef(value, 6)>>)
    /\ op.args[4][2][2] = NodeSet("One", <<NodeRef(value, 4)>>)
    /\ op.ret.ns = NodeSet("One", <<Scalar("string", Data(0, 1, "11,2"))>>)

\* C17: Add, Sub and Mul of Integer a and Integer b yield the Integer node
\* with the exact result when it fits the integer width, and a Float node
\* otherwise, never a wrapped integer.
C17_IntegersNeverWrap ==
    (/\ op.name = "apply" /\ op.args[1].t \in {"Add", "Sub", "Mul"}
     /\ op.args[1].args[1].t = "Integer" /\ op.args[1].args[2].t = "Integer") =>
        LET a == op.args[1].args[1].x.num
            b == op.args[1].args[2].x.num
            exact == CASE op.args[1].t = "Add" -> a + b
                       [] op.args[1].t = "Sub" -> a - b
                       [] op.args[1].t = "Mul" -> a * b
        IN /\ op.ret.ns.shape = "One"
           /\ IF MinInt <= exact /\ exact <= MaxInt
              THEN op.ret.ns.elems[1] = Scalar("integer", Data(exact, 1, ""))
              ELSE op.ret.ns.elems[1].v.kind = "float"

\* MinInt * MinInt does not fit and is a float
C17_Witness ==
    /\ op.name = "apply" /\ op.args[1].t = "Mul"
    /\ op.args[1].args[1] = Expr_Literal("Integer", Data(MinInt, 1, ""))
    /\ op.args[1].args[2] = Expr_Literal("Integer", Data(MinInt, 1, ""))
    /\ op.ret.ns = NodeSet("One", <<Scalar("float", f64(MinInt * MinInt, 1))>>)

\* C18 as stated: Sub of an Integer node and a String node whose text is a
\* decimal integer yields the Integer node holding the difference, and Sub
\* with a string that is not numeric yields float NaN.
C18_SubIntegerString ==
    (/\ op.name = "apply" /\ op.args[1].t = "Sub" /\ Len(op.args[4]) = 2
     /\ op.args[4][1][2].shape = "One" /\ op.args[4][2][2].shape = "One") =>
        LET a == op.args[4][1][2].elems[1].v
            b == op.args[4][2][2].elems[1].v
            numeric(v) == as_float(v).den = 1
        IN /\ (a.kind = "integer" /\ b.kind = "string" /\ numeric(b)) =>
                 op.ret.ns = NodeSet("One", <<Scalar("integer",
                                 Data(a.data.num - as_float(b).num, 1, ""))>>)
           /\ ((a.kind = "string" /\ ~numeric(a)) \/ (b.kind = "string" /\ ~numeric(b))) =>
                 op.ret.ns = NodeSet("One", <<Scalar("float", NAN)>>)

\* C18, amended: Sub of an Integer node and a String node whose text is a
\* decimal integer yields the Float node holding the difference, and Sub with
\* a string that is not numeric yields float NaN.
C18_SubIntegerStringIsFloat ==
    (/\ op.name = "apply" /\ op.args[1].t = "Sub" /\ Len(op.args[4]) = 2
     /\ op.args[4][1][2].shape = "One" /\ op.args[4][2][2].shape = "One") =>
        LET a == op.args[4][1][2].elems[1].v
            b == op.args[4][2][2].elems[1].v
            numeric(v) == as_float(v).den = 1
        IN /\ (a.kind = "integer" /\ b.kind = "string" /\ numeric(b)) =>
                 op.ret.ns = NodeSet("One", <<Scalar("float",
                                 f64(a.data.num - as_float(b).num, 1))>>)
           /\ ((a.kind = "string" /\ ~numeric(a)) \/ (b.kind = "string" /\ ~numeric(b))) =>
                 op.ret.ns = NodeSet("One", <<Scalar("float", NAN)>>)

\* 1 - '2' is the float -1
C18_Witness ==
    /\ op.name = "apply" /\ op.args[1].t = "Sub" /\ Len(op.args[4]) = 2
    /\ op.args[4][1][2] = NodeSet("One", <<NodeRef(value, 6)>>)
    /\ op.args[4][2][2] = NodeSet("One", <<NodeRef(value, 16)>>)
    /\ op.ret.ns = NodeSet("One", <<Scalar("float", f64(-1, 1))>>)

\* C19 as stated: Property(id) emits the child of the current node stored
\* under key id, except that for an id that names an attribute the attribute
\* value of the current node is emitted instead of any child.
C19_PropertyOrAttribute ==
    (op.name = "apply" /\ op.args[1].t = "Property") =>
        LET id == op.args[1].id
            cur == op.args[3]
            attr == into_node_set(get_attr(metadata, NodeRef(value, cur), id, NodeBuf_ok))
        IN IF id \in {"@key", "@index"}
           THEN op.ret.ns = attr
           ELSE \A c \in DOMAIN value :
                   (metadata[c].parent = cur /\ metadata[c].key = id) =>
                       op.ret.ns = NodeSet("One", <<NodeRef(value, c)>>)

\* C19, amended: Property(id) emits the child stored under key id, also for
\* an id that names an attribute; the attribute value of the current node is
\* emitted by Attribute(attr) and by a string that names an attribute and is
\* evaluated in Property context (PropertyExpr of a String).
C19_PropertyIsChild ==
    /\ (op.name = "apply" /\ op.args[1].t = "Property") =>
          \A c \in DOMAIN value :
             (metadata[c].parent = op.args[3] /\ metadata[c].key = op.args[1].id) =>
                 op.ret.ns = NodeSet("One", <<NodeRef(value, c)>>)
    /\ (op.name = "apply" /\ op.args[1].t \in {"Attribute", "PropertyExpr"}) =>
          LET id == IF op.args[1].t = "Attribute" THEN op.args[1].x.str
                    ELSE op.args[1].args[1].x.str
              m == metadata[op.args[3]]
          IN /\ id = "@key" => op.ret.ns = NodeSet("One", <<Scalar("string", Data(0, 1, m.key))>>)
             /\ id = "@index" =>
                   op.ret.ns = NodeSet("One", <<Scalar("integer", Data(m.index, 1, ""))>>)

\* Property("@key") at the object 2, which has a child under the key "@key",
\* emits that child and not the key "0" of 2
C19_Witness ==
    /\ op.name = "apply" /\ op.args[1].t = "Property" /\ op.args[1].id = "@key"
    /\ op.args[3] = 2
    /\ op.ret.ns = NodeSet("One", <<NodeRef(value, 6)>>)

\* C20: is_equal is reflexive and symmetric over the nodes of every value
\* kind: a.is_equal(a) holds, and a.is_equal(b) is b.is_equal(a).
C20_IsEqualReflexiveSymmetric ==
    op.name = "is_equal" =>
        /\ op.args[1] = op.args[2] => op.ret.equal
        /\ op.ret.equal = is_equal(value, op.args[2], op.args[1])

\* the string "2" equals the integer 2, whichever side it is on
C20_Witness ==
    /\ op.name = "is_equal"
    /\ op.args[1] = NodeRef(value, 13) /\ op.args[2] = NodeRef(value, 16)
    /\ op.ret.equal

\* C21: parent_path returns a path exactly for a sequence of at least two
\* steps that starts at the root and whose steps before the last are literal
\* property or index accessors, and that path is the sequence without its
\* last step; for the path of a node that is not the root it is the path of
\* the node's parent.
C21_ParentPath ==
    op.name = "parent_path" =>
        LET e == op.args[1]
            anchored == /\ e.t = "Sequence" /\ Len(e.elems) >= 2
                        /\ e.elems[1] = Expr_Root
                        /\ \A i \in 2..(Len(e.elems) - 1) :
                              \E x \in {"a"} \cup {to_string(k) : k \in 0..9}, k \in 0..9 :
                                 e.elems[i] \in {Expr_Property(x), Expr_Index(k)}
        IN /\ op.ret.some = anchored
           /\ anchored => op.ret.path = [i \in 1..(Len(e.elems) - 1) |-> e.elems[i]]
           /\ ~anchored => op.ret.path = <<>>
           /\ \A n \in 1..12 :
                 (metadata[n].parent # None /\ e = Opath_from(value, metadata, n)) =>
                     /\ op.ret.some
                     /\ Expr_Sequence(op.ret.path) = Opath_from(value, metadata, metadata[n].parent)

\* the parent path of $[0].a, the path of node 5, is $[0], the path of node 2
C21_Witness ==
    /\ op.name = "parent_path"
    /\ op.args[1] = Opath_from(value, metadata, 5)
    /\ op.ret.some
    /\ Expr_Sequence(op.ret.path) = Expr_Sequence(<<Expr_Root, Expr_Index(0)>>)

\* C22: for every node set s (Empty, One or Many, over nodes of any value
\* kind), deserializing the wire form of s yields a node set of the same
\* shape that compares equal to s.
C22_NodeSetRoundTrip ==
    op.name = "node_set" => op.ret.set.shape = op.args[1].shape /\ op.ret.eq

\* C22 as amended: the node set read back has the same shape, and it
\* compares equal to s when every node of s is a null, a boolean, an
\* integer, a finite float or a string.
C22_NodeSetRoundTripOfScalars ==
    op.name = "node_set" =>
        /\ op.ret.set.shape = op.args[1].shape
        /\ (\A i \in 1..Len(op.args[1].elems) :
               LET v == op.args[1].elems[i].v
               IN \/ v.kind \in {"null", "boolean", "integer", "string"}
                  \/ v.kind = "float" /\ v.data.den # 0)
           => op.ret.eq

C22_Witness ==
    /\ op.name = "node_set"
    /\ op.args[1] = NodeSet("Many", <<NodeRef(value, 14), NodeRef(value, 10), NodeRef(value, 11)>>)
    /\ op.ret.set.shape = "Many" /\ Len(op.ret.set.elems) = 3
    /\ op.ret.eq

\* C23: a node is consumable exactly when it has no parent and exactly one
\* strong handle to it exists; into_consumable returns the very same node
\* when it is consumable and otherwise a new detached deep copy, and then
\* the original node and its tree are left unchanged.
C23_IntoConsumable ==
    op.name = "into_consumable" =>
        LET v == op.args[1].value
            md == op.args[1].metadata
            ns == op.args[2]
            r == op.ret
        IN /\ Len(r.nodes) = Len(ns)
           /\ \A m \in Allocated(v) : r.value[m] = v[m] /\ r.metadata[m] = md[m]
           /\ \A i \in 1..Len(ns) :
                LET n == ns[i]
                    c == r.nodes[i]
                    strong == Cardinality({pi \in Allocated(v) \X (1..NumNodes) :
                                              /\ pi[2] <= Len(v[pi[1]].elems)
                                              /\ v[pi[1]].elems[pi[2]] = n})
                              + Cardinality({j \in i..Len(ns) : ns[j] = n}) + op.args[3]
                IN /\ r.consumable[i] <=> (md[n].parent = None /\ strong = 1)
                   /\ r.consumable[i] => c = n
                   /\ ~r.consumable[i] =>
                        /\ v[c].kind = "free"
                        /\ r.metadata[c].parent = None
                        /\ r.value[c].kind = v[n].kind
                        /\ r.value[c].data = v[n].data
                        /\ Len(r.value[c].elems) = Len(v[n].elems)
                        /\ Reach(r.value, {c}, NumNodes) \cap Allocated(v) = {}

\* the root 1, held twice by the node set and by nobody else: the first
\* element is copied, the second is the root itself
C23_Witness ==
    /\ op.name = "into_consumable"
    /\ op.args[2] = <<1, 1>> /\ op.args[3] = 0
    /\ op.ret.consumable = <<FALSE, TRUE>>
    /\ op.ret.nodes[2] = 1 /\ op.ret.nodes[1] \notin {1, 2, 3}
    /\ Len(op.ret.value[op.ret.nodes[1]].elems) = 1

\* C24: Descendants(min, max) and Ancestors(min, max), the current node
\* being level 0, emit exactly the nodes at the levels d with
\* min <= d <= max, the descendants in depth-first document order, the
\* ancestors from the nearest to the farthest, each once, and nothing when
\* min < 0 or max < min; the evaluation fails when min or max is not a
\* single node; the result is flagged multiple.
C24_LevelRanges ==
    (op.name = "apply" /\ op.args[1].t \in {"Ancestors", "Descendants"}) =>
        LET lo == op.args[1].args[1]
            hi == op.args[1].args[2]
            cur == op.args[3]
            RECURSIVE preorder(_, _)
            RECURSIVE over(_, _, _)
            preorder(n, d) == <<<<n, d>>>> \o over(value[n].elems, 1, d + 1)
            over(es, i, d) == IF i > Len(es) THEN <<>> ELSE preorder(es[i], d) \o over(es, i + 1, d)
            height == CHOOSE k \in 0..Len(value) : Up(metadata, cur, k) # None
                                                   /\ Up(metadata, cur, k + 1) = None
            chain == [d \in 1..(height + 1) |-> <<Up(metadata, cur, d - 1), d - 1>>]
            InRange(p) == lo.x.num <= p[2] /\ p[2] <= hi.x.num
            levels == IF lo.x.num < 0 \/ hi.x.num < lo.x.num THEN <<>>
                      ELSE SelectSeq(IF op.args[1].t = "Descendants" THEN preorder(cur, 0) ELSE chain,
                                     InRange)
            nodes == [i \in 1..Len(levels) |-> NodeRef(value, levels[i][1])]
        IN IF lo.t # "Integer" \/ hi.t # "Integer"
           THEN op.ret.err.detail = "SingleNodeExpected"
           ELSE /\ op.ret.err = NoErr
                /\ op.ret.ns = IF nodes = <<>> THEN NodeSet("Empty", <<>>)
                               ELSE NodeSet("Many", nodes)

\* the descendants of the root at the levels 1 and 2, in document order
C24_Witness ==
    /\ op.name = "apply" /\ op.args[1].t = "Descendants" /\ op.args[3] = 1
    /\ op.args[1].args[1].x.num = 1 /\ op.args[1].args[2].x.num = 2
    /\ op.ret.ns = NodeSet("Many", [i \in 1..11 |->
                       NodeRef(value, <<2, 5, 6, 11, 3, 7, 12, 10, 4, 8, 9>>[i])])

\* C25 as stated: Range(start, step, stop) evaluated in Index or Property
\* context on a node with len children selects only children at positions
\* within [0, len-1]: negative endpoints count from the end, endpoints are
\* clamped to [0, len-1], positions are visited ascending with default step
\* +1 when start < stop and descending with default step -1 otherwise, equal
\* endpoints select that single child, and a node without children yields
\* nothing.
C25_RangeSelects ==
    (op.name = "apply" /\ op.args[1].t = "Range" /\ op.args[2] = "Index"
        /\ \A i \in 1..3 : op.args[1].args[i].t \in {"None", "Integer"}) =>
        LET cur == op.args[3]
            len == Len(value[cur].elems)
            part(i, default) == IF op.args[1].args[i].t = "None" THEN default
                                ELSE op.args[1].args[i].x.num
            from_end(x) == IF x < 0 THEN x + len ELSE x
            clamped(x) == IF x < 0 THEN 0 ELSE IF x > len - 1 THEN len - 1 ELSE x
            start == from_end(part(1, 0))
            stop == from_end(part(3, len - 1))
            first == clamped(start)
            last == clamped(stop)
            positions == IF first <= last THEN [i \in 1..(last - first + 1) |-> first + i - 1]
                         ELSE [i \in 1..(first - last + 1) |-> first - i + 1]
            selected == op.ret.ns.elems
        IN /\ op.ret.err = NoErr
           /\ \A i \in 1..Len(selected) : selected[i].id \in Children(value, cur)
           /\ len = 0 => selected = <<>>
           /\ (len > 0 /\ op.args[1].args[2].t = "None") =>
                selected = [i \in 1..Len(positions) |->
                                NodeRef(value, value[cur].elems[positions[i] + 1])]

\* C25 as amended: the same, except that nothing is selected when both
\* endpoints lie beyond the last child, or when start is 0 and stop, counted
\* from the end, lies before the first child.
C25_RangeSelectsOrNothing ==
    (op.name = "apply" /\ op.args[1].t = "Range" /\ op.args[2] = "Index"
        /\ \A i \in 1..3 : op.args[1].args[i].t \in {"None", "Integer"}) =>
        LET cur == op.args[3]
            len == Len(value[cur].elems)
            part(i, default) == IF op.args[1].args[i].t = "None" THEN default
                                ELSE op.args[1].args[i].x.num
            from_end(x) == IF x < 0 THEN x + len ELSE x
            clamped(x) == IF x < 0 THEN 0 ELSE IF x > len - 1 THEN len - 1 ELSE x
            start == from_end(part(1, 0))
            stop == from_end(part(3, len - 1))
            first == clamped(start)
            last == clamped(stop)
            positions == IF first <= last THEN [i \in 1..(last - first + 1) |-> first + i - 1]
                         ELSE [i \in 1..(first - last + 1) |-> first - i + 1]
            selected == op.ret.ns.elems
        IN /\ op.ret.err = NoErr
           /\ \A i \in 1..Len(selected) : selected[i].id \in Children(value, cur)
           /\ len = 0 => selected = <<>>
           /\ (len > 0 /\ op.args[1].args[2].t = "None") =>
                selected = IF (stop < 0 /\ start = 0) \/ (start > len - 1 /\ stop > len - 1) THEN <<>>
                           ELSE [i \in 1..Len(positions) |->
                                NodeRef(value, value[cur].elems[positions[i] + 1])]

\* [-2..] on the three children of the root: the second and the third child
C25_Witness ==
    /\ op.name = "apply" /\ op.args[1].t = "Range" /\ op.args[2] = "Index" /\ op.args[3] = 1
    /\ op.args[1].args[1] = Expr_Literal("Integer", Data(-2, 1, ""))
    /\ op.args[1].args[2].t = "None" /\ op.args[1].args[3].t = "None"
    /\ op.ret.ns = NodeSet("Many", <<NodeRef(value, 3), NodeRef(value, 4)>>)

\* C26: Or(a, b) outputs, for each element of a, that element when it is
\* truthy and otherwise the corresponding element of b (the element at the
\* same position when b is Many, the single b when b is One); when a is
\* Empty it outputs b's result.  No falsy element of a appears in the
\* output, and when a is a single truthy node b is not evaluated.
C26_OrCoalesces ==
    (op.name = "apply" /\ op.args[1].t = "Or") =>
        LET scope == op.args[4]
            of(id) == IF \E i \in 1..Len(scope) : scope[i][1] = id
                      THEN scope[CHOOSE i \in 1..Len(scope) : scope[i][1] = id][2]
                      ELSE NodeSet("Empty", <<>>)
            A == of("x")
            B == of("y")
            fails == op.args[1].args[2].t # "Var"
            RECURSIVE coalesced(_)
            coalesced(i) ==
                IF i > Len(A.elems) THEN <<>>
                ELSE (IF as_boolean(A.elems[i].v) THEN <<A.elems[i]>>
                      ELSE IF B.shape = "One" THEN B.elems
                      ELSE IF i <= Len(B.elems) THEN <<B.elems[i]>>
                      ELSE <<>>) \o coalesced(i + 1)
        IN IF A.shape = "One" /\ as_boolean(A.elems[1].v)
           THEN op.ret.err = NoErr /\ op.ret.ns.elems = A.elems
           ELSE ~fails =>
                  /\ op.ret.err = NoErr
                  /\ op.ret.ns.elems = IF A.shape \in {"Empty", "One"} THEN B.elems
                                       ELSE coalesced(1)

\* C27: evaluating a Range terminates for every value that start, step and
\* stop can evaluate to (including non-numeric operands that coerce to NaN,
\* and infinite values), in both value and selector context, emitting a
\* finite number of nodes.
C27_RangeTerminates ==
    (op.name = "apply" /\ op.args[1].t = "Range") => op.ret.err.detail # "never returns"

\* C28: when extend_multiple returns an error for a later item after an
\* earlier item of the same call has already moved children into the target,
\* the target's children still satisfy the parent/index/key metadata
\* invariant when the call returns.
C28_ExtendMultipleError ==
    [][(/\ steps' = steps + 1 /\ op'.name = "extend_multiple"
        /\ op'.err # NoErr /\ value' # value
        /\ C1_ChildrenMetadata)
       => ChildrenOK(value', metadata', op'.self)]_vars

\* C29 as stated: used as an Index-context filter on an array or object
\* current node (buffer not flagged multiple), the filter !(a == b) selects
\* exactly the same children, in the same order, as the filter a != b, for
\* all operand expressions a and b, including operands that evaluate to
\* Empty on some child.
C29_NotEqIsNe ==
    (op.name = "apply" /\ op.args[1].t = "Not" /\ op.args[1].args[1].t = "Eq"
        /\ op.args[2] = "Index" /\ value[op.args[3]].kind \in Containers) =>
        LET a == op.args[1].args[1].args[1]
            b == op.args[1].args[1].args[2]
            cur == NodeRef(value, op.args[3])
            env(c) == [root |-> NodeRef(value, 1), current |-> c, scope |-> op.args[4]]
            at(c, x) == into_node_set(Expr_apply_to(value, metadata, env(c), "Expr", x, NodeBuf_ok))
            ne == Expr_apply_to(value, metadata, env(cur), "Index", Expr_Op("Ne", <<a, b>>),
                                NodeBuf_ok)
        IN op.ret.err = ne.err /\ op.ret.ns = into_node_set(ne)

\* C29 as amended: the same, for all operand expressions a and b that
\* evaluate to a node or to several nodes on every child.
C29_NotEqIsNeOnNodes ==
    (op.name = "apply" /\ op.args[1].t = "Not" /\ op.args[1].args[1].t = "Eq"
        /\ op.args[2] = "Index" /\ value[op.args[3]].kind \in Containers) =>
        LET a == op.args[1].args[1].args[1]
            b == op.args[1].args[1].args[2]
            cur == NodeRef(value, op.args[3])
            env(c) == [root |-> NodeRef(value, 1), current |-> c, scope |-> op.args[4]]
            at(c, x) == into_node_set(Expr_apply_to(value, metadata, env(c), "Expr", x, NodeBuf_ok))
            ne == Expr_apply_to(value, metadata, env(cur), "Index", Expr_Op("Ne", <<a, b>>),
                                NodeBuf_ok)
        IN (\A i \in 1..Len(cur.v.elems) :
               LET c == NodeRef(value, cur.v.elems[i])
               IN at(c, a).shape # "Empty" /\ at(c, b).shape # "Empty")
           => op.ret.err = ne.err /\ op.ret.ns = into_node_set(ne)

\* [!(1 == @.*)] on the root: each of its children has children, of which
\* some are equal to 1 and some are not
C29_Witness ==
    /\ op.name = "apply" /\ op.args[1].t = "Not" /\ op.args[1].args[1].t = "Eq"
    /\ op.args[2] = "Index" /\ op.args[3] = 1
    /\ op.args[1].args[1].args[1] = Expr_Literal("Integer", Data(1, 1, ""))
    /\ op.ret.ns = NodeSet("Many", <<NodeRef(value, 2), NodeRef(value, 3), NodeRef(value, 3),
                                    NodeRef(value, 3), NodeRef(value, 4)>>)

\* C30: the JSON Parser::parse succeeds only when the whole input is one
\* well-formed JSON value: elements of arrays and members of objects are
\* separated by exactly one comma with no leading, trailing or doubled
\* comma, and any further token after the top-level value makes the parse
\* fail.
C30_ParseWholeInput ==
    op.name = "parse" =>
        LET ts == op.args[1]
            \* the positions behind a value, a list of elements and a list of
            \* members that start at position i
            RECURSIVE Values(_, _)
            RECURSIVE Lists(_, _, _)
            Values(i, fuel) ==
                IF i > Len(ts) \/ fuel = 0 THEN {}
                ELSE CASE ts[i] \in {"1", "a"} -> {i + 1}
                       [] ts[i] \in {"[", "{"} ->
                              {j + 1 : j \in {k \in {i + 1} \cup Lists(i + 1, ts[i], fuel - 1) :
                                                k <= Len(ts)
                                                /\ ts[k] = (IF ts[i] = "[" THEN "]" ELSE "}")}}
                       [] OTHER -> {}
            Lists(i, open, fuel) ==
                IF fuel = 0 THEN {}
                ELSE LET item == IF open = "["
                                 THEN Values(i, fuel - 1)
                                 ELSE IF i + 1 <= Len(ts) /\ ts[i] = "a" /\ ts[i + 1] = ":"
                                      THEN Values(i + 2, fuel - 1) ELSE {}
                     IN item \cup UNION {Lists(j + 1, open, fuel - 1) :
                                            j \in {k \in item : k <= Len(ts) /\ ts[k] = ","}}
        IN ~op.ret.err => (Len(ts) + 1) \in Values(1, Len(ts) + 1)

====
